---------------------------- MODULE Spec2Model ----------------------------
(***************************************************************************)
(* Model of the legal-text classification and structured-extraction        *)
(* pipeline of law-llm:                                                    *)
(*   - DISCLawDataCollector._classify_legal_text                           *)
(*       (scripts/collect_disc_law_data.py), the rule-based categorizer;   *)
(*   - LegalKnowledgeProcessor._clean_text, _extract_law_articles,         *)
(*       _extract_article_content and _classify_article_type               *)
(*       (backend/app/services/knowledge_processor.py);                    *)
(*   - LegalKnowledgeProcessor.calculate_similarity and _extract_keywords;  *)
(*   - the dataset split, the training run and the model artifact of       *)
(*       DISCLawBERT (backend/app/services/disc_law_bert.py) and           *)
(*       LegalBERTTrainer (backend/app/services/model_training.py).        *)
(*                                                                         *)
(* A Python str is modelled as a sequence of Unicode code points           *)
(* (integers); the comments give the characters.                           *)
(***************************************************************************)
EXTENDS Integers, Sequences, FiniteSets

VARIABLES
  text,             \* _classify_legal_text: the argument
  category_scores,  \* _classify_legal_text: the dict built by the loop (in insertion order)
  best_category,    \* _classify_legal_text: first element of the returned tuple
  confidence,       \* _classify_legal_text: second element, as the fraction num/den
  cpc,              \* "ready" before the call, "done" after it returned
  content,          \* process_legal_document: the raw document text
  cleaned_content,  \* process_legal_document: result of _clean_text
  law_articles,     \* process_legal_document: result of _extract_law_articles
  ppc,              \* position in process_legal_document: "start", "cleaned", "extracted"
  content1,         \* calculate_similarity: first text
  content2,         \* calculate_similarity: second text
  jieba_dict,       \* the dictionary jieba segments with
  similarity,       \* result of calculate_similarity(content1, content2), as num/den
  similarity_swapped, \* result of calculate_similarity(content2, content1)
  sim_done,         \* which of the two calls have returned
  lcut_words,       \* _extract_keywords: the token sequence jieba.lcut returned
  keywords,         \* the list _extract_keywords returns
  kpc,              \* position in _extract_keywords: "start", "done"
  corpus_labels,    \* the labels list given to the split, one label id per example
  split_by,         \* which operation split the corpus: "prepare_dataset", "prepare_data"
  train_idx,        \* corpus positions in the train partition
  val_idx,          \* corpus positions in the validation partition
  split_result,     \* "pending", then "ok" or "ValueError"
  trainer_kind,     \* the class whose train method runs: "DISCLawBERT", "LegalBERTTrainer"
  num_train_epochs, \* config['epochs'], passed to TrainingArguments
  phases,           \* the states the run has passed through, in order
  f1_log,           \* eval_f1 of each finished epoch
  best_metric,      \* Trainer state: best eval_f1 so far, -1 for None
  best_epoch,       \* Trainer state: epoch of best_model_checkpoint, 0 for None
  patience_counter, \* EarlyStoppingCallback's early_stopping_patience_counter
  should_training_stop,\* Trainer control flag set by the callback
  model_epoch,      \* epoch whose weights the in-memory model holds, 0 before training
  saved_epoch,      \* epoch whose weights trainer.save_model() wrote, 0 for no artifact
  tpc,              \* position in the run: "initialized", "prepared", "training", "trained", "saved", "done"
  files,            \* output_dir: version of each file, 0 absent, 1 previous save, 2 this save
  has_metrics,      \* whether self.metrics of the saving instance is non-empty
  spc,              \* position in save_model: "start", "weights", "tokenizer", "config", "done", "interrupted"
  loaded,           \* load_model: version of each part it has read, 0 for not read
  load_result,      \* load_model: "none", "ok", or the exception it raised
  lpc,              \* position in load_model: "start", "config", "weights", "done", "raised"
  predict_result,   \* predict on the loaded instance: "none", "results", or the exception
  trainer,          \* self.trainer of the loaded instance: "no instance", "None", "Trainer"
  predict_texts,    \* the texts given to predict
  predictions,      \* the list predict returned
  is_initialized,   \* LawLLMServiceWindows.is_initialized
  pipeline,         \* LawLLMServiceWindows.pipeline: "None" or "pipeline"
  threads,          \* the threads that call generate_response on the shared instance
  thread_pc,        \* position of each thread: "idle", "to_initialize", "initializing", "generate"
  thread_prompt,    \* the prompt of each thread's current call, as the set of mock keys it contains
  thread_response,  \* what each thread's last call returned
  load_attempts,    \* number of executions of initialize
  load_failed,      \* whether an execution of initialize has failed
  calls_started,    \* number of generate_response calls so far
  document,         \* process_legal_document: the argument content, a str or not
  doc_result,       \* the dict process_legal_document returned
  doc_pc,           \* position of the call: "start", "returned"
  main_entry,       \* which main() runs: disc_law_bert.py or the training script
  main_data,        \* labels of the usable items of gba_legal_data.json
  main_labels,      \* labels load_data returned
  main_pc,          \* position of the training run
  main_steps,       \* steps of main() executed so far, in order
  main_files,       \* files the run has written into output_dir
  prepare_failed,   \* TRUE once prepare_dataset has raised in this run
  collector,        \* DISCLawDataCollector: the fields legal_categories and collected_data
  classify_log      \* the calls of _classify_legal_text so far: text, result, fields before and after

varsCategorizer == <<text, category_scores, best_category, confidence, cpc>>

varsProcessor == <<content, cleaned_content, law_articles, ppc>>

varsSimilarity ==
  <<content1, content2, jieba_dict, similarity, similarity_swapped, sim_done>>

varsKeywords ==
  <<lcut_words, keywords, kpc>>

varsDataset ==
  <<corpus_labels, split_by, train_idx, val_idx, split_result>>

varsTraining ==
  <<trainer_kind, num_train_epochs, phases, f1_log, best_metric, best_epoch, patience_counter, should_training_stop, model_epoch, saved_epoch, tpc>>

varsArtifact ==
  <<files, has_metrics, spc, loaded, load_result, lpc, predict_result,
    trainer, predict_texts, predictions>>

varsService ==
  <<is_initialized, pipeline, threads, thread_pc, thread_prompt, thread_response, load_attempts, load_failed, calls_started>>

varsDocument ==
  <<document, doc_result, doc_pc>>

varsRun ==
  <<main_entry, main_data, main_labels, main_pc, main_steps, main_files, prepare_failed>>

varsCollector ==
  <<collector, classify_log>>

vars == <<varsCategorizer, varsProcessor, varsSimilarity, varsKeywords, varsDataset, varsTraining, varsArtifact, varsService, varsDocument, varsRun, varsCollector>>

\* The variables outside each group.
exceptCategorizer ==
  <<varsProcessor, varsSimilarity, varsKeywords, varsDataset, varsTraining, varsArtifact, varsService, varsDocument, varsRun, varsCollector>>

exceptProcessor ==
  <<varsCategorizer, varsSimilarity, varsKeywords, varsDataset, varsTraining, varsArtifact, varsService, varsDocument, varsRun, varsCollector>>

exceptSimilarity ==
  <<varsCategorizer, varsProcessor, varsKeywords, varsDataset, varsTraining, varsArtifact, varsService, varsDocument, varsRun, varsCollector>>

exceptKeywords ==
  <<varsCategorizer, varsProcessor, varsSimilarity, varsDataset, varsTraining, varsArtifact, varsService, varsDocument, varsRun, varsCollector>>

exceptDataset ==
  <<varsCategorizer, varsProcessor, varsSimilarity, varsKeywords, varsTraining, varsArtifact, varsService, varsDocument, varsRun, varsCollector>>

exceptTraining ==
  <<varsCategorizer, varsProcessor, varsSimilarity, varsKeywords, varsDataset, varsArtifact, varsService, varsDocument, varsRun, varsCollector>>

exceptArtifact ==
  <<varsCategorizer, varsProcessor, varsSimilarity, varsKeywords, varsDataset, varsTraining, varsService, varsDocument, varsRun, varsCollector>>

exceptService ==
  <<varsCategorizer, varsProcessor, varsSimilarity, varsKeywords, varsDataset, varsTraining, varsArtifact, varsDocument, varsRun, varsCollector>>

exceptDocument ==
  <<varsCategorizer, varsProcessor, varsSimilarity, varsKeywords, varsDataset, varsTraining, varsArtifact, varsService, varsRun, varsCollector>>

exceptRun ==
  <<varsCategorizer, varsProcessor, varsSimilarity, varsKeywords, varsDataset, varsTraining, varsArtifact, varsService, varsDocument, varsCollector>>

exceptCollector ==
  <<varsCategorizer, varsProcessor, varsSimilarity, varsKeywords, varsDataset, varsTraining, varsArtifact, varsService, varsDocument, varsRun>>

\* The processor pipeline is not in use.
IdleProcessor ==
  /\ content = <<>>
  /\ cleaned_content = <<>>
  /\ law_articles = <<>>
  /\ ppc = "idle"

\* The categorizer is not in use.
IdleCategorizer ==
  /\ text = <<>>
  /\ category_scores = <<>>
  /\ best_category = "none"
  /\ confidence = [num |-> 0, den |-> 1]
  /\ cpc = "idle"

\* The similarity scorer is not in use.
IdleSimilarity ==
  /\ content1 = <<>>
  /\ content2 = <<>>
  /\ jieba_dict = {}
  /\ similarity = [num |-> 0, den |-> 1]
  /\ similarity_swapped = [num |-> 0, den |-> 1]
  /\ sim_done = {}

\* The keyword extractor is not in use.
IdleKeywords ==
  /\ lcut_words = <<>>
  /\ keywords = <<>>
  /\ kpc = "idle"

\* No dataset is being prepared.
IdleDataset ==
  /\ corpus_labels = <<>>
  /\ split_by = "none"
  /\ train_idx = {}
  /\ val_idx = {}
  /\ split_result = "idle"

\* No training run is in progress.
IdleTraining ==
  /\ trainer_kind = "none"
  /\ num_train_epochs = 0
  /\ phases = <<>>
  /\ f1_log = <<>>
  /\ best_metric = -1
  /\ best_epoch = 0
  /\ patience_counter = 0
  /\ should_training_stop = FALSE
  /\ model_epoch = 0
  /\ saved_epoch = 0
  /\ tpc = "idle"

\* No artifact is being saved or loaded.
IdleArtifact ==
  /\ files = <<>>
  /\ has_metrics = FALSE
  /\ spc = "idle"
  /\ loaded = <<>>
  /\ load_result = "none"
  /\ lpc = "idle"
  /\ predict_result = "none"
  /\ trainer = "no instance"
  /\ predict_texts = <<>>
  /\ predictions = <<>>

\* The LawLLM service is not in use.
IdleService ==
  /\ is_initialized = FALSE
  /\ pipeline = "None"
  /\ threads = {}
  /\ thread_pc = <<>>
  /\ thread_prompt = <<>>
  /\ thread_response = <<>>
  /\ load_attempts = 0
  /\ load_failed = FALSE
  /\ calls_started = 0

\* No document is being processed.
IdleDocument ==
  /\ document = [is_text |-> TRUE, text |-> <<>>]
  /\ doc_result = <<>>
  /\ doc_pc = "idle"

\* No training run is in progress.
IdleRun ==
  /\ main_entry = "none"
  /\ main_data = <<>>
  /\ main_labels = <<>>
  /\ main_pc = "none"
  /\ main_steps = <<>>
  /\ main_files = {}
  /\ prepare_failed = FALSE

\* No collector has been constructed.
IdleCollector ==
  /\ collector = <<>>
  /\ classify_log = <<>>

IdleExceptCategorizer ==
  IdleProcessor /\ IdleSimilarity /\ IdleKeywords /\ IdleDataset /\ IdleTraining /\ IdleArtifact /\ IdleService /\ IdleDocument /\ IdleRun /\ IdleCollector

IdleExceptProcessor ==
  IdleCategorizer /\ IdleSimilarity /\ IdleKeywords /\ IdleDataset /\ IdleTraining /\ IdleArtifact /\ IdleService /\ IdleDocument /\ IdleRun /\ IdleCollector

IdleExceptSimilarity ==
  IdleCategorizer /\ IdleProcessor /\ IdleKeywords /\ IdleDataset /\ IdleTraining /\ IdleArtifact /\ IdleService /\ IdleDocument /\ IdleRun /\ IdleCollector

IdleExceptKeywords ==
  IdleCategorizer /\ IdleProcessor /\ IdleSimilarity /\ IdleDataset /\ IdleTraining /\ IdleArtifact /\ IdleService /\ IdleDocument /\ IdleRun /\ IdleCollector

IdleExceptDataset ==
  IdleCategorizer /\ IdleProcessor /\ IdleSimilarity /\ IdleKeywords /\ IdleTraining /\ IdleArtifact /\ IdleService /\ IdleDocument /\ IdleRun /\ IdleCollector

IdleExceptTraining ==
  IdleCategorizer /\ IdleProcessor /\ IdleSimilarity /\ IdleKeywords /\ IdleDataset /\ IdleArtifact /\ IdleService /\ IdleDocument /\ IdleRun /\ IdleCollector

IdleExceptArtifact ==
  IdleCategorizer /\ IdleProcessor /\ IdleSimilarity /\ IdleKeywords /\ IdleDataset /\ IdleTraining /\ IdleService /\ IdleDocument /\ IdleRun /\ IdleCollector

IdleExceptService ==
  IdleCategorizer /\ IdleProcessor /\ IdleSimilarity /\ IdleKeywords /\ IdleDataset /\ IdleTraining /\ IdleArtifact /\ IdleDocument /\ IdleRun /\ IdleCollector

IdleExceptDocument ==
  IdleCategorizer /\ IdleProcessor /\ IdleSimilarity /\ IdleKeywords /\ IdleDataset /\ IdleTraining /\ IdleArtifact /\ IdleService /\ IdleRun /\ IdleCollector

IdleExceptRun ==
  IdleCategorizer /\ IdleProcessor /\ IdleSimilarity /\ IdleKeywords /\ IdleDataset /\ IdleTraining /\ IdleArtifact /\ IdleService /\ IdleDocument /\ IdleCollector

IdleExceptCollector ==
  IdleCategorizer /\ IdleProcessor /\ IdleSimilarity /\ IdleKeywords /\ IdleDataset /\ IdleTraining /\ IdleArtifact /\ IdleService /\ IdleDocument /\ IdleRun

(***************************************************************************)
(* Strings                                                                 *)
(***************************************************************************)

\* Python `sub in s` for str: sub occurs as a contiguous substring of s.
Contains(s, sub) ==
  \E i \in 0..(Len(s) - Len(sub)) : \A j \in 1..Len(sub) : s[i + j] = sub[j]

\* str.lower() on one code point. Only ASCII letters occur cased in the
\* modelled inputs; CJK ideographs and punctuation have no case.
LowerChar(c) == IF c >= 65 /\ c <= 90 THEN c + 32 ELSE c

Lower(s) == [i \in 1..Len(s) |-> LowerChar(s[i])]

(***************************************************************************)
(* Rule-based categorizer: scripts/collect_disc_law_data.py                *)
(***************************************************************************)

\* self.legal_categories. The dict is keyed by the Chinese category names
\* (given in the comments); `name` is the key, written with the ASCII name
\* of the fixed enumeration 0=civil ... 9=other. Order is insertion order.
legal_categories ==
  <<
    \* 0: "民事"
    [ name |-> "civil",
      keywords |-> <<
        <<21512, 21516>>,  \* 合同
        <<21327, 35758>>,  \* 协议
        <<23653, 34892>>,  \* 履行
        <<36829, 32422>>,  \* 违约
        <<36180, 20607>>,  \* 赔偿
        <<20538, 21153>>,  \* 债务
        <<36130, 20135>>,  \* 财产
        <<23130, 23035>>,  \* 婚姻
        <<32487, 25215>>,  \* 继承
        <<31163, 23130>>,  \* 离婚
        <<25242, 20859>>  \* 抚养
      >>,
      subcategories |-> <<
        <<21512, 21516, 27861>>,  \* 合同法
        <<23130, 23035, 27861>>,  \* 婚姻法
        <<32487, 25215, 27861>>,  \* 继承法
        <<29289, 26435, 27861>>,  \* 物权法
        <<20405, 26435, 27861>>  \* 侵权法
      >> ],
    \* 1: "刑事"
    [ name |-> "criminal",
      keywords |-> <<
        <<29359, 32618>>,  \* 犯罪
        <<21009, 32602>>,  \* 刑罚
        <<21009, 20107>>,  \* 刑事
        <<36215, 35785>>,  \* 起诉
        <<21028, 20915>>,  \* 判决
        <<37327, 21009>>,  \* 量刑
        <<30423, 31363>>,  \* 盗窃
        <<25250, 21163>>,  \* 抢劫
        <<25925, 24847, 20260, 23475>>,  \* 故意伤害
        <<35784, 39575>>  \* 诈骗
      >>,
      subcategories |-> <<
        <<21009, 27861, 24635, 21017>>,  \* 刑法总则
        <<21009, 27861, 20998, 21017>>,  \* 刑法分则
        <<21009, 20107, 35785, 35772, 27861>>,  \* 刑事诉讼法
        <<21009, 20107, 25191, 34892>>  \* 刑事执行
      >> ],
    \* 2: "行政"
    [ name |-> "administrative",
      keywords |-> <<
        <<34892, 25919>>,  \* 行政
        <<25919, 24220>>,  \* 政府
        <<22788, 32602>>,  \* 处罚
        <<22797, 35758>>,  \* 复议
        <<35768, 21487>>,  \* 许可
        <<23457, 25209>>,  \* 审批
        <<25191, 27861>>,  \* 执法
        <<30417, 31649>>,  \* 监管
        <<34892, 25919, 22788, 32602>>  \* 行政处罚
      >>,
      subcategories |-> <<
        <<34892, 25919, 27861>>,  \* 行政法
        <<34892, 25919, 35785, 35772, 27861>>,  \* 行政诉讼法
        <<34892, 25919, 22797, 35758, 27861>>,  \* 行政复议法
        <<34892, 25919, 35768, 21487, 27861>>  \* 行政许可法
      >> ],
    \* 3: "商事"
    [ name |-> "commercial",
      keywords |-> <<
        <<20844, 21496>>,  \* 公司
        <<32929, 19996>>,  \* 股东
        <<33891, 20107>>,  \* 董事
        <<20225, 19994>>,  \* 企业
        <<25237, 36164>>,  \* 投资
        <<36152, 26131>>,  \* 贸易
        <<32929, 26435>>,  \* 股权
        <<24182, 36141>>,  \* 并购
        <<30772, 20135>>  \* 破产
      >>,
      subcategories |-> <<
        <<20844, 21496, 27861>>,  \* 公司法
        <<35777, 21048, 27861>>,  \* 证券法
        <<20445, 38505, 27861>>,  \* 保险法
        <<30772, 20135, 27861>>,  \* 破产法
        <<28023, 21830, 27861>>  \* 海商法
      >> ],
    \* 4: "劳动"
    [ name |-> "labor",
      keywords |-> <<
        <<21171, 21160>>,  \* 劳动
        <<21592, 24037>>,  \* 员工
        <<24037, 36164>>,  \* 工资
        <<31038, 20445>>,  \* 社保
        <<24037, 20260>>,  \* 工伤
        <<35299, 38599>>,  \* 解雇
        <<21152, 29677>>,  \* 加班
        <<20241, 20551>>,  \* 休假
        <<21171, 21160, 21512, 21516>>  \* 劳动合同
      >>,
      subcategories |-> <<
        <<21171, 21160, 27861>>,  \* 劳动法
        <<21171, 21160, 21512, 21516, 27861>>,  \* 劳动合同法
        <<31038, 20250, 20445, 38505, 27861>>,  \* 社会保险法
        <<21171, 21160, 20105, 35758, 35843, 35299, 20210, 35009, 27861>>  \* 劳动争议调解仲裁法
      >> ],
    \* 5: "知识产权"
    [ name |-> "intellectual_property",
      keywords |-> <<
        <<19987, 21033>>,  \* 专利
        <<21830, 26631>>,  \* 商标
        <<29256, 26435>>,  \* 版权
        <<30693, 35782, 20135, 26435>>,  \* 知识产权
        <<20405, 26435>>,  \* 侵权
        <<21457, 26126>>,  \* 发明
        <<21019, 20316>>,  \* 创作
        <<33879, 20316, 26435>>  \* 著作权
      >>,
      subcategories |-> <<
        <<19987, 21033, 27861>>,  \* 专利法
        <<21830, 26631, 27861>>,  \* 商标法
        <<33879, 20316, 26435, 27861>>,  \* 著作权法
        <<21453, 19981, 27491, 24403, 31454, 20105, 27861>>  \* 反不正当竞争法
      >> ],
    \* 6: "环境"
    [ name |-> "environmental",
      keywords |-> <<
        <<29615, 22659>>,  \* 环境
        <<27745, 26579>>,  \* 污染
        <<20445, 25252>>,  \* 保护
        <<29983, 24577>>,  \* 生态
        <<25490, 25918>>,  \* 排放
        <<27835, 29702>>,  \* 治理
        <<21487, 25345, 32493, 21457, 23637>>,  \* 可持续发展
        <<29615, 20445>>  \* 环保
      >>,
      subcategories |-> <<
        <<29615, 22659, 20445, 25252, 27861>>,  \* 环境保护法
        <<22823, 27668, 27745, 26579, 38450, 27835, 27861>>,  \* 大气污染防治法
        <<27700, 27745, 26579, 38450, 27835, 27861>>,  \* 水污染防治法
        <<22266, 20307, 24223, 29289, 27745, 26579, 29615, 22659, 38450, 27835, 27861>>  \* 固体废物污染环境防治法
      >> ],
    \* 7: "国际"
    [ name |-> "international",
      keywords |-> <<
        <<22269, 38469>>,  \* 国际
        <<20210, 35009>>,  \* 仲裁
        <<36152, 26131>>,  \* 贸易
        <<25237, 36164>>,  \* 投资
        <<21512, 20316>>,  \* 合作
        <<26465, 32422>>,  \* 条约
        <<22806, 20132>>,  \* 外交
        <<22269, 38469, 27861>>  \* 国际法
      >>,
      subcategories |-> <<
        <<22269, 38469, 20844, 27861>>,  \* 国际公法
        <<22269, 38469, 31169, 27861>>,  \* 国际私法
        <<22269, 38469, 32463, 27982, 27861>>,  \* 国际经济法
        <<22269, 38469, 21830, 27861>>  \* 国际商法
      >> ],
    \* 8: "金融"
    [ name |-> "financial",
      keywords |-> <<
        <<38134, 34892>>,  \* 银行
        <<35777, 21048>>,  \* 证券
        <<20445, 38505>>,  \* 保险
        <<37329, 34701>>,  \* 金融
        <<25237, 36164>>,  \* 投资
        <<29702, 36130>>,  \* 理财
        <<36151, 27454>>,  \* 贷款
        <<20449, 36151>>  \* 信贷
      >>,
      subcategories |-> <<
        <<38134, 34892, 27861>>,  \* 银行法
        <<35777, 21048, 27861>>,  \* 证券法
        <<20445, 38505, 27861>>,  \* 保险法
        <<20449, 25176, 27861>>,  \* 信托法
        <<22522, 37329, 27861>>  \* 基金法
      >> ],
    \* 9: "其他"
    [ name |-> "other",
      keywords |-> <<
        <<20854, 20182>>,  \* 其他
        <<32508, 21512>>,  \* 综合
        <<19968, 33324>>,  \* 一般
        <<29305, 27530>>  \* 特殊
      >>,
      subcategories |-> <<
        <<20854, 20182, 27861, 24459>>,  \* 其他法律
        <<32508, 21512, 27861, 24459>>,  \* 综合法律
        <<29305, 27530, 27861, 24459>>  \* 特殊法律
      >> ]
  >>

NumCategories == Len(legal_categories)

\* The catch-all category, the last key of the table.
OtherCategory == legal_categories[NumCategories].name

\* Number of positions at which sub occurs in s.
Occurrences(s, sub) ==
  Cardinality({i \in 0..(Len(s) - Len(sub)) : \A j \in 1..Len(sub) : s[i + j] = sub[j]})

\* Variant of HitScore that adds the weight once per occurrence of the word.
RECURSIVE HitScorePerOccurrence(_, _, _)
HitScorePerOccurrence(words, text_lower, weight) ==
  IF words = <<>> THEN 0
  ELSE weight * Occurrences(text_lower, Head(words))
       + HitScorePerOccurrence(Tail(words), text_lower, weight)

\* The two inner loops: `if keyword in text_lower: score += weight`.
RECURSIVE HitScore(_, _, _)
HitScore(words, text_lower, weight) ==
  IF words = <<>> THEN 0
  ELSE (IF Contains(text_lower, Head(words)) THEN weight ELSE 0)
       + HitScore(Tail(words), text_lower, weight)

\* The body of the outer loop for one category.
CategoryScore(info, text_lower) ==
  HitScore(info.keywords, text_lower, 1) + HitScore(info.subcategories, text_lower, 2)

\* category_scores after the outer loop: one entry per key, in insertion order.
ComputeScores(t) ==
  LET text_lower == Lower(t)
  IN  [i \in 1..NumCategories |->
         [category |-> legal_categories[i].name,
          score    |-> CategoryScore(legal_categories[i], text_lower)]]

\* Variant of MaxFrom that keeps the last of several maximal entries.
RECURSIVE MaxFromLast(_, _, _)
MaxFromLast(scores, i, best) ==
  IF i > Len(scores) THEN best
  ELSE MaxFromLast(scores, i + 1, IF scores[i].score >= scores[best].score THEN i ELSE best)

\* max(category_scores, key=category_scores.get): iterates the dict in
\* insertion order and keeps the first key whose value is strictly greater
\* than every value before it.
RECURSIVE MaxFrom(_, _, _)
MaxFrom(scores, i, best) ==
  IF i > Len(scores) THEN best
  ELSE MaxFrom(scores, i + 1, IF scores[i].score > scores[best].score THEN i ELSE best)

MaxKey(scores) == scores[MaxFrom(scores, 2, 1)].category

ScoreOfKey(scores, key) ==
  LET i == CHOOSE k \in 1..Len(scores) : scores[k].category = key IN scores[i].score

\* sum(category_scores.values())
RECURSIVE SumScores(_)
SumScores(scores) ==
  IF scores = <<>> THEN 0 ELSE Head(scores).score + SumScores(Tail(scores))

\* Variant of Confidence that divides by the number of categories.
ConfidenceOverCount(max_score, total_score) ==
  IF total_score > 0 THEN [num |-> max_score, den |-> NumCategories]
  ELSE [num |-> 0, den |-> 1]

\* `max_score / total_score if total_score > 0 else 0.0`, kept as the exact
\* fraction num/den of the two integers (0.0 is 0/1).
Confidence(max_score, total_score) ==
  IF total_score > 0 THEN [num |-> max_score, den |-> total_score]
  ELSE [num |-> 0, den |-> 1]

(***************************************************************************)
(* Inputs of the categorizer: concatenations of at most MaxFrags fragments *)
(***************************************************************************)
MaxFrags == 2

ClassifyFragments ==
  {
    <<21512, 21516>>,
    <<21512>>,
    <<21516>>,
    <<27861>>,
    <<29359, 32618>>,
    <<25237, 36164>>,
    <<35777, 21048, 27861>>,
    <<21171, 21160>>,
    <<20854, 20182>>,
    <<65>>,
    <<21512, 21516, 21452, 26041, 24212, 24403, 25353, 29031, 32422, 23450, 23653, 34892, 20041, 21153>>
  }
  \*   <<21512, 21516>> = "合同"
  \*   <<21512>> = "合"
  \*   <<21516>> = "同"
  \*   <<27861>> = "法"
  \*   <<29359, 32618>> = "犯罪"
  \*   <<25237, 36164>> = "投资"
  \*   <<35777, 21048, 27861>> = "证券法"
  \*   <<21171, 21160>> = "劳动"
  \*   <<20854, 20182>> = "其他"
  \*   <<65>> = "A"
  \*   <<21512, 21516, 21452, 26041, 24212, 24403, 25353, 29031, 32422, 23450, 23653, 34892, 20041, 21153>> = "合同双方应当按照约定履行义务"

RECURSIVE FragmentTexts(_, _)
FragmentTexts(frags, n) ==
  IF n = 0 THEN {<<>>}
  ELSE LET shorter == FragmentTexts(frags, n - 1)
       IN  shorter \cup {s \o f : s \in shorter, f \in frags}

ClassifyTexts == FragmentTexts(ClassifyFragments, MaxFrags)

InitCategorizer ==
  /\ text \in ClassifyTexts
  /\ category_scores = <<>>
  /\ best_category = "none"
  /\ confidence = [num |-> 0, den |-> 1]
  /\ cpc = "ready"
  /\ IdleExceptCategorizer

\* One call of _classify_legal_text(text).
ClassifyLegalText ==
  /\ cpc = "ready"
  /\ LET scores == ComputeScores(text)
         best   == MaxKey(scores)
         max_score == ScoreOfKey(scores, best)
         total_score == SumScores(scores)
     IN  /\ category_scores' = scores
         /\ best_category' = best
         /\ confidence' = Confidence(max_score, total_score)
  /\ cpc' = "done"
  /\ UNCHANGED <<text, exceptCategorizer>>

NextCategorizer == ClassifyLegalText

SpecCategorizer == InitCategorizer /\ [][NextCategorizer]_vars

(***************************************************************************)
(* Normalizer: LegalKnowledgeProcessor._clean_text                         *)
(***************************************************************************)
Min(a, b) == IF a <= b THEN a ELSE b

\* The code points Python's `\s` (str patterns) and str.strip() treat as
\* whitespace.
WhitespaceChars ==
  (9..13) \cup (28..32) \cup {133, 160, 5760} \cup (8192..8202)
  \cup {8232, 8233, 8239, 8287, 12288}

IsSpace(c) == c \in WhitespaceChars

\* The punctuation listed in the character class of line 78:
\*   ， 。 ！ ？ ； ： " （ ） 【 】 《 》
\* (the two apostrophes in the source line end and reopen the string literal,
\* so the apostrophe itself is not in the class).
KeptPunctuation ==
  {65292, 12290, 65281, 65311, 65307, 65306, 34, 65288, 65289, 12304, 12305, 12298, 12299}

\* [一-龥a-zA-Z0-9\s...]: the characters the second substitution keeps.
IsKept(c) ==
  \/ (c >= 19968 /\ c <= 40869)
  \/ (c >= 97 /\ c <= 122)
  \/ (c >= 65 /\ c <= 90)
  \/ (c >= 48 /\ c <= 57)
  \/ IsSpace(c)
  \/ c \in KeptPunctuation

\* re.sub(r'X+', repl, s) for a one-character class X: every maximal run of
\* characters of the class becomes the single character repl.
SubRuns(s, class, repl) ==
  LET marked == [i \in 1..Len(s) |->
                   IF s[i] \in class
                   THEN (IF i > 1 /\ s[i - 1] \in class THEN -1 ELSE repl)
                   ELSE s[i]]
  IN  SelectSeq(marked, LAMBDA c : c # -1)

\* re.sub(r'[^...]', '', s): delete every character outside the class.
RemoveSpecial(s) == SelectSeq(s, IsKept)

\* str.strip(): drop leading and trailing whitespace.
Strip(s) ==
  LET solid == {i \in 1..Len(s) : ~IsSpace(s[i])}
  IN  IF solid = {} THEN <<>>
      ELSE LET first == CHOOSE i \in solid : \A j \in solid : i <= j
               last  == CHOOSE i \in solid : \A j \in solid : j <= i
           IN  SubSeq(s, first, last)

\* _clean_text, statement by statement.
clean_text(raw) ==
  LET s1 == SubRuns(raw, WhitespaceChars, 32)     \* re.sub(r'\s+', ' ', content)
      s2 == RemoveSpecial(s1)
      s3 == SubRuns(s2, {65292}, 65292)           \* re.sub(r'，+', '，', content)
      s4 == SubRuns(s3, {12290}, 12290)           \* re.sub(r'。+', '。', content)
  IN  Strip(s4)

(***************************************************************************)
(* Pattern extractor: _extract_law_articles and its helpers                *)
(***************************************************************************)

\* [一二三四五六七八九十百千万\d]; of the decimal digits only 0-9 survive
\* _clean_text.
NumeralChars ==
  {19968, 20108, 19977, 22235, 20116, 20845, 19971, 20843, 20061, 21313, 30334, 21315, 19975}
  \cup (48..57)

\* self.law_patterns, in order. "ref": 第[numerals]+<last>;
\* "title": 《[^》]+<suffix>》.
law_patterns ==
  << [kind |-> "ref",   suffix |-> <<26465>>],         \* 第[...]+条
     [kind |-> "ref",   suffix |-> <<27454>>],         \* 第[...]+款
     [kind |-> "ref",   suffix |-> <<39033>>],         \* 第[...]+项
     [kind |-> "title", suffix |-> <<27861>>],         \* 《[^》]+法》
     [kind |-> "title", suffix |-> <<26465, 20363>>],  \* 《[^》]+条例》
     [kind |-> "title", suffix |-> <<35268, 23450>>] >>  \* 《[^》]+规定》

\* Where a match of 第[numerals]+<last> starting at 0-based offset i ends
\* (exclusive), or -1. The greedy numeral run is maximal and the character
\* after it must be <last>, which is not a numeral.
RefMatchEnd(s, i, last) ==
  IF i + 1 > Len(s) \/ s[i + 1] # 31532 THEN -1     \* 第
  ELSE LET k == CHOOSE n \in (i + 2)..(Len(s) + 1) :
                  /\ (n = Len(s) + 1 \/ s[n] \notin NumeralChars)
                  /\ \A m \in (i + 2)..(n - 1) : s[m] \in NumeralChars
       IN  IF k > i + 2 /\ k <= Len(s) /\ s[k] = last THEN k ELSE -1

\* Where a match of 《[^》]+<suffix>》 starting at 0-based offset i ends, or
\* -1. [^》]+ cannot cross a 》, so the closing 》 is the first one after the
\* opening 《, the suffix stands right before it, and at least one more
\* character stands between 《 and the suffix.
TitleMatchEnd(s, i, suffix) ==
  IF i + 1 > Len(s) \/ s[i + 1] # 12298 THEN -1     \* 《
  ELSE LET closes == {n \in (i + 2)..Len(s) : s[n] = 12299}    \* 》
       IN  IF closes = {} THEN -1
           ELSE LET k == CHOOSE n \in closes : \A m \in closes : n <= m
                    L == Len(suffix)
                IN  IF /\ k - L - 1 >= i + 2
                       /\ SubSeq(s, k - L, k - 1) = suffix
                    THEN k ELSE -1

MatchEnd(s, i, pattern) ==
  IF pattern.kind = "ref" THEN RefMatchEnd(s, i, pattern.suffix[1])
  ELSE TitleMatchEnd(s, i, pattern.suffix)

\* re.finditer(pattern, s): the leftmost match at or after pos, then the
\* scan resumes at its end (matches are never empty).
RECURSIVE FindIter(_, _, _)
FindIter(s, pattern, pos) ==
  LET starts == {i \in pos..(Len(s) - 1) : MatchEnd(s, i, pattern) # -1}
  IN  IF starts = {} THEN <<>>
      ELSE LET i == CHOOSE a \in starts : \A b \in starts : a <= b
               e == MatchEnd(s, i, pattern)
           IN  <<[start |-> i, end |-> e]>> \o FindIter(s, pattern, e)

\* s[a:b] for 0 <= a, with Python's clamping of b to len(s).
Slice(s, a, b) == SubSeq(s, a + 1, Min(b, Len(s)))

\* s.find(ch, a, b): lowest 0-based index in [a, min(b, len(s))) holding ch,
\* or -1.
Find(s, ch, a, b) ==
  LET hits == {k \in a..(Min(b, Len(s)) - 1) : s[k + 1] = ch}
  IN  IF hits = {} THEN -1 ELSE CHOOSE k \in hits : \A m \in hits : k <= m

\* The length cap of _extract_article_content.
ContentWindow == 200

\* Variant of extract_article_content whose search for the terminator is not
\* limited to the window (content.find('。', content_start)).
extract_article_content_unbounded(s, start_pos, end_pos) ==
  LET content_start == end_pos
      sentence_end  == Find(s, 12290, content_start, Len(s))
      content_end   == IF sentence_end # -1 THEN sentence_end + 1
                       ELSE content_start + ContentWindow
  IN  Strip(Slice(s, content_start, content_end))

\* _extract_article_content(content, start_pos, end_pos)
extract_article_content(s, start_pos, end_pos) ==
  LET content_start == end_pos
      sentence_end  == Find(s, 12290, content_start, content_start + ContentWindow)
      content_end   == IF sentence_end # -1 THEN sentence_end + 1
                       ELSE content_start + ContentWindow
  IN  Strip(Slice(s, content_start, content_end))

\* Variant of classify_article_type that tests the literal 条例 first.
classify_article_type_regulation_first(article_text) ==
  IF Contains(article_text, <<26465, 20363>>) THEN "regulation"
  ELSE IF Contains(article_text, <<26465>>) THEN "article"
  ELSE IF Contains(article_text, <<27454>>) THEN "paragraph"
  ELSE IF Contains(article_text, <<39033>>) THEN "item"
  ELSE IF Contains(article_text, <<27861>>) THEN "law"
  ELSE "other"

\* _classify_article_type(article_text): the first literal found decides.
classify_article_type(article_text) ==
  IF Contains(article_text, <<26465>>) THEN "article"               \* 条
  ELSE IF Contains(article_text, <<27454>>) THEN "paragraph"        \* 款
  ELSE IF Contains(article_text, <<39033>>) THEN "item"             \* 项
  ELSE IF Contains(article_text, <<27861>>) THEN "law"              \* 法
  ELSE IF Contains(article_text, <<26465, 20363>>) THEN "regulation"  \* 条例
  ELSE "other"

\* The entries appended for one pattern, in match order.
ArticlesOfPattern(s, pattern) ==
  LET matches == FindIter(s, pattern, 0)
  IN  [n \in 1..Len(matches) |->
         LET article_text == Slice(s, matches[n].start, matches[n].end)
         IN  [article_text |-> article_text,
              content      |-> extract_article_content(s, matches[n].start, matches[n].end),
              position     |-> <<matches[n].start, matches[n].end>>,
              type         |-> classify_article_type(article_text)]]

\* _extract_law_articles(content): the outer loop over self.law_patterns.
RECURSIVE ArticlesFrom(_, _)
ArticlesFrom(s, p) ==
  IF p > Len(law_patterns) THEN <<>>
  ELSE ArticlesOfPattern(s, law_patterns[p]) \o ArticlesFrom(s, p + 1)

\* An extractor that reports a placeholder entry when nothing matched.
extract_law_articles_placeholder(s) ==
  IF ArticlesFrom(s, 1) = <<>>
  THEN <<[article_text |-> <<>>, content |-> <<>>, position |-> <<0, 0>>,
          type |-> "other"]>>
  ELSE ArticlesFrom(s, 1)

extract_law_articles(s) == ArticlesFrom(s, 1)

\* process_legal_document, step 1: cleaned_content = self._clean_text(content)
CleanText ==
  /\ ppc = "start"
  /\ cleaned_content' = clean_text(content)
  /\ ppc' = "cleaned"
  /\ UNCHANGED <<content, law_articles, exceptProcessor>>

\* process_legal_document, step 2:
\* law_articles = self._extract_law_articles(cleaned_content)
ExtractLawArticles ==
  /\ ppc = "cleaned"
  /\ law_articles' = extract_law_articles(cleaned_content)
  /\ ppc' = "extracted"
  /\ UNCHANGED <<content, cleaned_content, exceptProcessor>>

(***************************************************************************)
(* Inputs of the normalizer: all strings over RawAlphabet up to MaxRawLen  *)
(***************************************************************************)
MaxRawLen == 5

\* space, newline, <, >, b, ，, ！
RawAlphabet == {32, 10, 60, 62, 98, 65292, 65281}

RECURSIVE StringsUpTo(_, _)
StringsUpTo(alphabet, n) ==
  IF n = 0 THEN {<<>>}
  ELSE LET shorter == StringsUpTo(alphabet, n - 1)
       IN  shorter \cup {Append(s, c) : s \in shorter, c \in alphabet}

RawTexts == StringsUpTo(RawAlphabet, MaxRawLen)

InitNormalizer ==
  /\ content \in RawTexts
  /\ cleaned_content = <<>>
  /\ law_articles = <<>>
  /\ ppc = "start"
  /\ IdleExceptProcessor

NextNormalizer == CleanText

SpecNormalizer == InitNormalizer /\ [][NextNormalizer]_vars

(***************************************************************************)
(* Inputs of the extractor: concatenations of at most MaxDocFrags          *)
(* fragments, run through the pipeline clean -> extract                    *)
(***************************************************************************)
MaxDocFrags == 3

\* n filler characters "x".
Pad(n) == [i \in 1..n |-> 120]

\* The scenario input 《民法典》第四百六十九条
CivilCodeArticle ==
  <<12298, 27665, 27861, 20856, 12299, 31532, 22235, 30334, 20845, 21313, 20061, 26465>>

DocFragments ==
  { <<12298>>,                 \* 《
    <<31532, 19968, 26465>>,   \* 第一条
    <<27861, 12299>>,          \* 法》
    <<20363, 12299>>,          \* 例》
    <<12290>>,                 \* 。
    <<32>>,                    \* space
    <<120>>,                   \* x
    Pad(ContentWindow - 1),
    Pad(ContentWindow),
    CivilCodeArticle }

DocTexts == FragmentTexts(DocFragments, MaxDocFrags)

InitExtractor ==
  /\ content \in DocTexts
  /\ cleaned_content = <<>>
  /\ law_articles = <<>>
  /\ ppc = "start"
  /\ IdleExceptProcessor

NextExtractor == CleanText \/ ExtractLawArticles

SpecExtractor == InitExtractor /\ [][NextExtractor]_vars

(***************************************************************************)
(* Inputs for the subtypes of the extractor: bracketed titles and          *)
(* numbered references made of at most MaxTitleFrags fragments             *)
(***************************************************************************)
MaxTitleFrags == 3

TitleFragments ==
  { <<12298>>,                 \* 《
    <<26465, 20363, 12299>>,   \* 条例》
    <<27861, 12299>>,          \* 法》
    <<35268, 23450, 12299>>,   \* 规定》
    <<27454>>,                 \* 款
    <<39033>>,                 \* 项
    <<31532, 19968, 26465>>,   \* 第一条
    <<31532, 20108, 27454>>,   \* 第二款
    <<27665>> }                \* 民

TitleTexts == FragmentTexts(TitleFragments, MaxTitleFrags)

InitSubtype ==
  /\ content \in TitleTexts
  /\ cleaned_content = <<>>
  /\ law_articles = <<>>
  /\ ppc = "start"
  /\ IdleExceptProcessor

SpecSubtype == InitSubtype /\ [][NextExtractor]_vars

(***************************************************************************)
(* Similarity scorer: LegalKnowledgeProcessor.calculate_similarity         *)
(***************************************************************************)
Range(f) == {f[i] : i \in DOMAIN f}

\* jieba.lcut(s): the text cut into consecutive words that together spell
\* the text again (the empty text gives the empty list). Which cuts are made
\* depends on jieba's dictionary; the model takes the longest dictionary
\* word at each position and a single character where no word starts.
RECURSIVE lcut(_, _)
lcut(s, dict) ==
  IF s = <<>> THEN <<>>
  ELSE LET lens == {n \in 2..Len(s) : SubSeq(s, 1, n) \in dict}
           n    == IF lens = {} THEN 1
                   ELSE CHOOSE a \in lens : \A b \in lens : b <= a
       IN  <<SubSeq(s, 1, n)>> \o lcut(SubSeq(s, n + 1, Len(s)), dict)

\* Variant of calculate_similarity that divides by the size of the first
\* text's word set.
calculate_similarity_by_first(c1, c2, dict) ==
  LET words1 == Range(lcut(c1, dict))
      words2 == Range(lcut(c2, dict))
      intersection == words1 \cap words2
      union == words1 \cup words2
  IN  IF Cardinality(words1) = 0 THEN [num |-> 0, den |-> 1]
      ELSE [num |-> Cardinality(intersection), den |-> Cardinality(words1)]

\* Variant of calculate_similarity that takes len(words1) + len(words2) for
\* the size of the union.
calculate_similarity_sum(c1, c2, dict) ==
  LET words1 == Range(lcut(c1, dict))
      words2 == Range(lcut(c2, dict))
      intersection == words1 \cap words2
  IN  IF Cardinality(words1) + Cardinality(words2) = 0 THEN [num |-> 0, den |-> 1]
      ELSE [num |-> Cardinality(intersection),
            den |-> Cardinality(words1) + Cardinality(words2)]

\* calculate_similarity(content1, content2) for two str arguments: the
\* float len(intersection) / len(union) is kept as the fraction num/den, and
\* 0.0 as 0/1.
calculate_similarity(c1, c2, dict) ==
  LET words1 == Range(lcut(c1, dict))
      words2 == Range(lcut(c2, dict))
      intersection == words1 \cap words2
      union == words1 \cup words2
  IN  IF Cardinality(union) = 0 THEN [num |-> 0, den |-> 1]
      ELSE [num |-> Cardinality(intersection), den |-> Cardinality(union)]

(***************************************************************************)
(* Inputs of the similarity scorer                                         *)
(***************************************************************************)
MaxSimFrags == 2

SimFragments ==
  { <<21512, 21516>>,   \* 合同
    <<21512>>,          \* 合
    <<21516>>,          \* 同
    <<27861>> }         \* 法

SimTexts == FragmentTexts(SimFragments, MaxSimFrags)

\* Words jieba's dictionary may or may not hold: 合同, 同法
DictionaryWords == { <<21512, 21516>>, <<21516, 27861>> }

InitSimilarity ==
  /\ content1 \in SimTexts
  /\ content2 \in SimTexts
  /\ jieba_dict \in SUBSET DictionaryWords
  /\ similarity = [num |-> 0, den |-> 1]
  /\ similarity_swapped = [num |-> 0, den |-> 1]
  /\ sim_done = {}
  /\ IdleExceptSimilarity

\* knowledge_processor.calculate_similarity(content1, content2)
CalculateSimilarity ==
  /\ "forward" \notin sim_done
  /\ similarity' = calculate_similarity(content1, content2, jieba_dict)
  /\ sim_done' = sim_done \cup {"forward"}
  /\ UNCHANGED <<content1, content2, jieba_dict, similarity_swapped, exceptSimilarity>>

\* knowledge_processor.calculate_similarity(content2, content1)
CalculateSimilaritySwapped ==
  /\ "swapped" \notin sim_done
  /\ similarity_swapped' = calculate_similarity(content2, content1, jieba_dict)
  /\ sim_done' = sim_done \cup {"swapped"}
  /\ UNCHANGED <<content1, content2, jieba_dict, similarity, exceptSimilarity>>

NextSimilarity == CalculateSimilarity \/ CalculateSimilaritySwapped

SpecSimilarity == InitSimilarity /\ [][NextSimilarity]_vars

(***************************************************************************)
(* Keyword extractor: LegalKnowledgeProcessor._extract_keywords            *)
(***************************************************************************)
\* self.legal_terms (__init__)
legal_terms == {
  <<21512, 21516>>,  \* 合同
  <<20405, 26435>>,  \* 侵权
  <<36829, 32422>>,  \* 违约
  <<36180, 20607>>,  \* 赔偿
  <<36131, 20219>>,  \* 责任
  <<20041, 21153>>,  \* 义务
  <<26435, 21033>>,  \* 权利
  <<35785, 35772>>,  \* 诉讼
  <<20210, 35009>>,  \* 仲裁
  <<35843, 35299>>,  \* 调解
  <<21028, 20915>>,  \* 判决
  <<35009, 23450>>,  \* 裁定
  <<25191, 34892>>,  \* 执行
  <<27665, 20107>>,  \* 民事
  <<21009, 20107>>,  \* 刑事
  <<34892, 25919>>,  \* 行政
  <<21830, 20107>>,  \* 商事
  <<21171, 21160>>,  \* 劳动
  <<23130, 23035>>,  \* 婚姻
  <<32487, 25215>>,  \* 继承
  <<30693, 35782, 20135, 26435>>,  \* 知识产权
  <<19987, 21033>>,  \* 专利
  <<21830, 26631>>,  \* 商标
  <<33879, 20316, 26435>>,  \* 著作权
  <<21830, 19994, 31192, 23494>>   \* 商业秘密
}

\* _get_stop_words(): the set literal it returns
stop_words == {
  <<30340>>,  \* 的
  <<20102>>,  \* 了
  <<22312>>,  \* 在
  <<26159>>,  \* 是
  <<25105>>,  \* 我
  <<26377>>,  \* 有
  <<21644>>,  \* 和
  <<23601>>,  \* 就
  <<19981>>,  \* 不
  <<20154>>,  \* 人
  <<37117>>,  \* 都
  <<19968>>,  \* 一
  <<19968, 20010>>,  \* 一个
  <<19978>>,  \* 上
  <<20063>>,  \* 也
  <<24456>>,  \* 很
  <<21040>>,  \* 到
  <<35828>>,  \* 说
  <<35201>>,  \* 要
  <<21435>>,  \* 去
  <<20320>>,  \* 你
  <<20250>>,  \* 会
  <<30528>>,  \* 着
  <<27809, 26377>>,  \* 没有
  <<30475>>,  \* 看
  <<22909>>,  \* 好
  <<33258, 24049>>,  \* 自己
  <<36825>>,  \* 这
  <<37027>>,  \* 那
  <<37324>>,  \* 里
  <<26469>>,  \* 来
  <<19979>>,  \* 下
  <<36807>>,  \* 过
  <<20182>>,  \* 他
  <<22905>>,  \* 她
  <<23427>>,  \* 它
  <<20204>>,  \* 们
  <<25105, 20204>>,  \* 我们
  <<20320, 20204>>,  \* 你们
  <<20182, 20204>>,  \* 他们
  <<36825, 20010>>,  \* 这个
  <<37027, 20010>>,  \* 那个
  <<36825, 20123>>,  \* 这些
  <<37027, 20123>>,  \* 那些
  <<20160, 20040>>,  \* 什么
  <<24590, 20040>>,  \* 怎么
  <<20026, 20160, 20040>>,  \* 为什么
  <<22240, 20026>>,  \* 因为
  <<25152, 20197>>,  \* 所以
  <<20294, 26159>>,  \* 但是
  <<28982, 21518>>,  \* 然后
  <<22914, 26524>>,  \* 如果
  <<34429, 28982>>,  \* 虽然
  <<32780, 19988>>,  \* 而且
  <<25110, 32773>>,  \* 或者
  <<36824, 26159>>   \* 还是
}

\* The condition of the comprehension that builds filtered_words.
IsKeywordToken(w) == Len(w) > 1 /\ w \notin stop_words

\* filtered_words: the tokens that pass, in their order.
filtered_words(ws) == SelectSeq(ws, IsKeywordToken)

\* Counter(filtered_words): one entry per distinct word with its count; a
\* Counter is a dict, so the entries stand in order of first occurrence.
RECURSIVE Counter(_)
Counter(ws) ==
  IF ws = <<>> THEN <<>>
  ELSE LET init == Counter(SubSeq(ws, 1, Len(ws) - 1))
           w    == ws[Len(ws)]
       IN  IF \E i \in DOMAIN init : init[i].word = w
           THEN [i \in DOMAIN init |->
                   IF init[i].word = w
                   THEN [init[i] EXCEPT !.freq = @ + 1]
                   ELSE init[i]]
           ELSE Append(init, [word |-> w, freq |-> 1])

\* A sort that puts an entry in front of the earlier entries of equal count.
InsertBeforeEqual(sorted, e) ==
  LET k == Cardinality({i \in DOMAIN sorted : sorted[i].freq > e.freq})
  IN  SubSeq(sorted, 1, k) \o <<e>> \o SubSeq(sorted, k + 1, Len(sorted))

\* most_common sorts the items by count, largest first, and the sort is
\* stable: an entry goes behind the earlier entries of equal count.
InsertStable(sorted, e) ==
  LET k == Cardinality({i \in DOMAIN sorted : sorted[i].freq >= e.freq})
  IN  SubSeq(sorted, 1, k) \o <<e>> \o SubSeq(sorted, k + 1, Len(sorted))

RECURSIVE SortedByCount(_)
SortedByCount(items) ==
  IF items = <<>> THEN <<>>
  ELSE InsertStable(SortedByCount(SubSeq(items, 1, Len(items) - 1)),
                    items[Len(items)])

\* Counter.most_common(n): the n first entries of the sorted items.
most_common(counter, n) ==
  SubSeq(SortedByCount(counter), 1, Min(n, Len(counter)))

\* The argument of most_common in _extract_keywords.
TopN == 20

\* _extract_keywords, from the token list jieba.lcut(content) on.
extract_keywords(ws) ==
  LET top == most_common(Counter(filtered_words(ws)), TopN)
  IN  [i \in 1..Len(top) |->
         [word          |-> top[i].word,
          frequency     |-> top[i].freq,
          is_legal_term |-> top[i].word \in legal_terms]]

(***************************************************************************)
(* Inputs of the keyword extractor: token lists with up to TopN + 2        *)
(* distinct keyword candidates                                             *)
(***************************************************************************)
\* Extra tokens after the base list.
MaxExtra == 2

\* The i-th of a family of distinct two-character words.
Word(i) == <<35789, 12352 + i>>

\* One word more than most_common keeps, each once.
BaseWords == [i \in 1..(TopN + 1) |-> Word(i)]

\* 的 (stop word), 法 (one character), 合同 (legal term), 一个 (stop word of
\* two characters), and three of the family.
Vocabulary ==
  { <<30340>>, <<27861>>, <<21512, 21516>>, <<19968, 20010>>,
    Word(1), Word(TopN + 1), Word(TopN + 2) }

TokensUpTo(n) == UNION {[1..k -> Vocabulary] : k \in 0..n}

KeywordTokenLists ==
  {pre \o base \o post : pre \in TokensUpTo(1),
                         base \in {<<>>, BaseWords},
                         post \in TokensUpTo(MaxExtra)}

InitKeywords ==
  /\ lcut_words \in KeywordTokenLists
  /\ keywords = <<>>
  /\ kpc = "start"
  /\ IdleExceptKeywords

\* knowledge_processor._extract_keywords(content), after jieba.lcut
ExtractKeywords ==
  /\ kpc = "start"
  /\ keywords' = extract_keywords(lcut_words)
  /\ kpc' = "done"
  /\ UNCHANGED <<lcut_words, exceptKeywords>>

NextKeywords == ExtractKeywords

SpecKeywords == InitKeywords /\ [][NextKeywords]_vars

(***************************************************************************)
(* Dataset split: DISCLawBERT.prepare_dataset (disc_law_bert.py) and       *)
(* LegalBERTTrainer.prepare_data (model_training.py), both through         *)
(* sklearn's train_test_split with test_size = 0.2                         *)
(***************************************************************************)
\* Sum of a function of numbers over its domain.
RECURSIVE Sum(_)
Sum(f) ==
  IF DOMAIN f = {} THEN 0
  ELSE LET c == CHOOSE c \in DOMAIN f : TRUE
       IN  f[c] + Sum([d \in DOMAIN f \ {c} |-> f[d]])

\* np.unique / np.bincount of the labels: examples per class.
class_counts(labels) ==
  [c \in Range(labels) |-> Cardinality({i \in DOMAIN labels : labels[i] = c})]

\* n_test = ceil(test_size * n_samples) with test_size = 0.2
n_test_of(n_samples) == (n_samples + 4) \div 5

\* n_train = n_samples - n_test (train_size is None)
n_train_of(n_samples) == n_samples - n_test_of(n_samples)

\* sklearn's _approximate_mode(class_counts, n_draws): every class gets the
\* floor of its share counts[c] * n_draws / N, and the draws still missing
\* go one each to the classes of largest fractional part; classes whose
\* fractional parts tie are picked by the random generator, so every pick
\* is an outcome.
approximate_mode(counts, n_draws) ==
  LET N         == Sum(counts)
      floored   == [c \in DOMAIN counts |-> (counts[c] * n_draws) \div N]
      remainder == [c \in DOMAIN counts |-> (counts[c] * n_draws) % N]
      need      == n_draws - Sum(floored)
      picks     == {S \in SUBSET DOMAIN counts :
                      /\ Cardinality(S) = need
                      /\ \A c \in S, d \in DOMAIN counts \ S :
                           remainder[c] >= remainder[d]}
  IN  {[c \in DOMAIN counts |-> floored[c] + (IF c \in S THEN 1 ELSE 0)] :
         S \in picks}

\* The examples of class c among the positions idx.
OfClass(labels, idx, c) == {i \in idx : labels[i] = c}

\* _validate_shuffle_split raises ValueError when the train set would be
\* empty (an empty corpus included).
ShuffleSplitRaises(labels) == n_train_of(Len(labels)) = 0

\* StratifiedShuffleSplit raises ValueError when a class has fewer than 2
\* members, or n_train or n_test is smaller than the number of classes.
StratifiedRaises(labels) ==
  LET counts == class_counts(labels)
  IN  \/ \E c \in DOMAIN counts : counts[c] < 2
      \/ n_train_of(Len(labels)) < Cardinality(DOMAIN counts)
      \/ n_test_of(Len(labels)) < Cardinality(DOMAIN counts)

\* The splits train_test_split(..., stratify=labels) can return: per class
\* n_i train examples and t_i test examples, drawn by a permutation of the
\* class's examples.
StratifiedSplits(labels) ==
  LET counts == class_counts(labels)
      n      == Len(labels)
  IN  {<<tr, va>> \in (SUBSET DOMAIN labels) \X (SUBSET DOMAIN labels) :
         /\ tr \cap va = {}
         /\ \E n_i \in approximate_mode(counts, n_train_of(n)) :
              \E t_i \in approximate_mode(
                           [c \in DOMAIN counts |-> counts[c] - n_i[c]],
                           n_test_of(n)) :
                \A c \in DOMAIN counts :
                  /\ Cardinality(OfClass(labels, tr, c)) = n_i[c]
                  /\ Cardinality(OfClass(labels, va, c)) = t_i[c]}

\* The splits train_test_split(...) without stratify can return: the first
\* n_test positions of a permutation are the test set, the next n_train
\* the train set.
ShuffleSplits(labels) ==
  LET n == Len(labels)
  IN  {<<tr, va>> \in (SUBSET DOMAIN labels) \X (SUBSET DOMAIN labels) :
         /\ tr \cap va = {}
         /\ Cardinality(va) = n_test_of(n)
         /\ Cardinality(tr) = n_train_of(n)}

(***************************************************************************)
(* Inputs of the dataset split: corpora of at most MaxCorpus examples      *)
(* over the label ids 0..2, grouped by label                               *)
(***************************************************************************)
MaxCorpus == 9

LabelIds == 0..2

Repeat(l, k) == [i \in 1..k |-> l]

Corpora ==
  {Repeat(0, t[1]) \o Repeat(1, t[2]) \o Repeat(2, t[3]) :
     t \in {u \in (0..MaxCorpus) \X (0..MaxCorpus) \X (0..MaxCorpus) :
              u[1] + u[2] + u[3] <= MaxCorpus}}

InitDataset ==
  /\ corpus_labels \in Corpora
  /\ split_by = "none"
  /\ train_idx = {}
  /\ val_idx = {}
  /\ split_result = "pending"
  /\ IdleExceptDataset

\* DISCLawBERT.prepare_dataset(texts, labels): stratified split, then
\* tokenization of both partitions (which keeps the labels).
PrepareDataset ==
  /\ split_result = "pending"
  /\ split_by' = "prepare_dataset"
  /\ IF ShuffleSplitRaises(corpus_labels) \/ StratifiedRaises(corpus_labels)
     THEN /\ split_result' = "ValueError"
          /\ UNCHANGED <<train_idx, val_idx>>
     ELSE /\ \E s \in StratifiedSplits(corpus_labels) :
               /\ train_idx' = s[1]
               /\ val_idx' = s[2]
          /\ split_result' = "ok"
  /\ UNCHANGED <<corpus_labels, exceptDataset>>

\* LegalBERTTrainer.prepare_data(data_path), from the labels read from the
\* file on: plain shuffled split, then the two LegalDataset objects.
PrepareData ==
  /\ split_result = "pending"
  /\ split_by' = "prepare_data"
  /\ IF ShuffleSplitRaises(corpus_labels)
     THEN /\ split_result' = "ValueError"
          /\ UNCHANGED <<train_idx, val_idx>>
     ELSE /\ \E s \in ShuffleSplits(corpus_labels) :
               /\ train_idx' = s[1]
               /\ val_idx' = s[2]
          /\ split_result' = "ok"
  /\ UNCHANGED <<corpus_labels, exceptDataset>>

NextDataset == PrepareDataset \/ PrepareData

SpecDataset == InitDataset /\ [][NextDataset]_vars

(***************************************************************************)
(* Training run: DISCLawBERT.train (disc_law_bert.py) and                  *)
(* LegalBERTTrainer.train (model_training.py), both through the            *)
(* transformers Trainer with eval_strategy = save_strategy = "epoch",      *)
(* load_best_model_at_end = True and metric_for_best_model = "f1"          *)
(***************************************************************************)
\* early_stopping_patience of the EarlyStoppingCallback DISCLawBERT.train
\* installs (LegalBERTTrainer.train installs no callback).
EarlyStoppingPatience == 3

HasEarlyStopping(kind) == kind = "DISCLawBERT"

\* EarlyStoppingCallback.check_metric_value: the counter restarts when the
\* metric beats the best so far (or there is none yet), else it grows.
on_evaluate(counter, best, metric_value) ==
  IF best = -1 \/ metric_value > best THEN 0 ELSE counter + 1

\* Trainer keeps the first checkpoint that reached the best metric.
IsNewBest(best, metric_value) == best = -1 \/ metric_value > best

(***************************************************************************)
(* Inputs of the training run                                              *)
(***************************************************************************)
\* Largest config['epochs'] tried.
MaxEpochs == 5

\* Validation F1 of an epoch, in hundredths.
F1Values == {40, 50, 60}

InitTraining ==
  /\ trainer_kind \in {"DISCLawBERT", "LegalBERTTrainer"}
  /\ num_train_epochs \in 1..MaxEpochs
  /\ phases = <<"Initialized">>
  /\ f1_log = <<>>
  /\ best_metric = -1
  /\ best_epoch = 0
  /\ patience_counter = 0
  /\ should_training_stop = FALSE
  /\ model_epoch = 0
  /\ saved_epoch = 0
  /\ tpc = "initialized"
  /\ IdleExceptTraining

\* prepare_dataset / prepare_data returned the tokenized partitions.
PrepareForTraining ==
  /\ tpc = "initialized"
  /\ phases' = Append(phases, "Tokenized")
  /\ tpc' = "prepared"
  /\ UNCHANGED <<trainer_kind, num_train_epochs, f1_log, best_metric,
                 best_epoch, patience_counter, should_training_stop,
                 model_epoch, saved_epoch, exceptTraining>>

\* train(): TrainingArguments and Trainer are built, trainer.train() starts.
BeginTraining ==
  /\ tpc = "prepared"
  /\ phases' = Append(phases, "Training")
  /\ tpc' = "training"
  /\ UNCHANGED <<trainer_kind, num_train_epochs, f1_log, best_metric,
                 best_epoch, patience_counter, should_training_stop,
                 model_epoch, saved_epoch, exceptTraining>>

\* One epoch inside trainer.train(): the weights are updated, the epoch is
\* evaluated on the validation partition, the callback sees the metric, and
\* the checkpoint is saved and recorded as best if it is.
TrainEpoch ==
  /\ tpc = "training"
  /\ Len(f1_log) < num_train_epochs
  /\ ~should_training_stop
  /\ \E f1 \in F1Values :
       LET epoch   == Len(f1_log) + 1
           counter == IF HasEarlyStopping(trainer_kind)
                      THEN on_evaluate(patience_counter, best_metric, f1)
                      ELSE patience_counter
       IN  /\ f1_log' = Append(f1_log, f1)
           /\ model_epoch' = epoch
           /\ patience_counter' = counter
           /\ should_training_stop' =
                (HasEarlyStopping(trainer_kind) /\ counter >= EarlyStoppingPatience)
           /\ IF IsNewBest(best_metric, f1)
              THEN best_metric' = f1 /\ best_epoch' = epoch
              ELSE UNCHANGED <<best_metric, best_epoch>>
  /\ UNCHANGED <<trainer_kind, num_train_epochs, phases, saved_epoch, tpc,
                 exceptTraining>>

\* trainer.train() leaves its loop: load_best_model_at_end puts the weights
\* of best_model_checkpoint back into the model.
EndTraining ==
  /\ tpc = "training"
  /\ Len(f1_log) = num_train_epochs \/ should_training_stop
  /\ model_epoch' = best_epoch
  /\ tpc' = "trained"
  /\ UNCHANGED <<trainer_kind, num_train_epochs, phases, f1_log, best_metric,
                 best_epoch, patience_counter, should_training_stop,
                 saved_epoch, exceptTraining>>

\* trainer.save_model() and tokenizer.save_pretrained(output_dir).
\* DISCLawBERT.train then stores train_result.metrics and returns.
SaveTrainedModel ==
  /\ tpc = "trained"
  /\ saved_epoch' = model_epoch
  /\ phases' = Append(phases, "Saved")
  /\ tpc' = IF trainer_kind = "LegalBERTTrainer" THEN "saved" ELSE "done"
  /\ UNCHANGED <<trainer_kind, num_train_epochs, f1_log, best_metric,
                 best_epoch, patience_counter, should_training_stop,
                 model_epoch, exceptTraining>>

\* LegalBERTTrainer.train: eval_results = self.trainer.evaluate(), the final
\* metrics on the validation partition, after the model was saved.
FinalEvaluate ==
  /\ tpc = "saved"
  /\ trainer_kind = "LegalBERTTrainer"
  /\ phases' = Append(phases, "Evaluated")
  /\ tpc' = "done"
  /\ UNCHANGED <<trainer_kind, num_train_epochs, f1_log, best_metric,
                 best_epoch, patience_counter, should_training_stop,
                 model_epoch, saved_epoch, exceptTraining>>

NextTraining ==
  \/ PrepareForTraining
  \/ BeginTraining
  \/ TrainEpoch
  \/ EndTraining
  \/ SaveTrainedModel
  \/ FinalEvaluate

SpecTraining == InitTraining /\ [][NextTraining]_vars

(***************************************************************************)
(* Model artifact: DISCLawBERT.save_model, load_model and predict          *)
(* (disc_law_bert.py). The writer and the reader are separate processes    *)
(* sharing output_dir; each file operation is one step.                    *)
(***************************************************************************)
\* The parts of an artifact: model weights (save_pretrained), tokenizer
\* files, disc_law_bert_config.json, training_metrics.json.
ArtifactFiles == {"weights", "tokenizer", "config", "metrics"}

\* The parts load_model reads.
LoadedParts == {"config", "weights", "tokenizer"}

NoArtifact == [f \in ArtifactFiles |-> 0]

\* An artifact left by an earlier complete save_model; the metrics file is
\* there if that instance had metrics.
PreviousArtifact(with_metrics) ==
  [f \in ArtifactFiles |-> IF f = "metrics" /\ ~with_metrics THEN 0 ELSE 1]

\* The variables of a predict call.
predictVars == <<predict_result, predict_texts, predictions>>

\* Texts per predict call.
MaxTexts == 2

\* The text lists given to predict; a text is one of two.
PredictTexts == UNION {[1..k -> {"text a", "text b"}] : k \in 0..MaxTexts}

InitArtifact ==
  /\ files \in {NoArtifact, PreviousArtifact(TRUE), PreviousArtifact(FALSE)}
  /\ has_metrics \in BOOLEAN
  /\ spc = "start"
  /\ loaded = [p \in LoadedParts |-> 0]
  /\ load_result = "none"
  /\ lpc = "start"
  /\ predict_result = "none"
  /\ trainer = "no instance"
  /\ predict_texts = <<>>
  /\ predictions = <<>>
  /\ IdleExceptArtifact

\* save_model: self.model.save_pretrained(output_dir)
SaveWeights ==
  /\ spc = "start"
  /\ files' = [files EXCEPT !["weights"] = 2]
  /\ spc' = "weights"
  /\ UNCHANGED <<has_metrics, loaded, load_result, lpc, trainer, predictVars,
                 exceptArtifact>>

\* save_model: self.tokenizer.save_pretrained(output_dir)
SaveTokenizer ==
  /\ spc = "weights"
  /\ files' = [files EXCEPT !["tokenizer"] = 2]
  /\ spc' = "tokenizer"
  /\ UNCHANGED <<has_metrics, loaded, load_result, lpc, trainer, predictVars,
                 exceptArtifact>>

\* save_model: json.dump(self.config, ...) into disc_law_bert_config.json
SaveConfig ==
  /\ spc = "tokenizer"
  /\ files' = [files EXCEPT !["config"] = 2]
  /\ spc' = "config"
  /\ UNCHANGED <<has_metrics, loaded, load_result, lpc, trainer, predictVars,
                 exceptArtifact>>

\* save_model: training_metrics.json is written only if self.metrics is
\* non-empty; then save_model returns.
SaveMetrics ==
  /\ spc = "config"
  /\ files' = IF has_metrics THEN [files EXCEPT !["metrics"] = 2] ELSE files
  /\ spc' = "done"
  /\ UNCHANGED <<has_metrics, loaded, load_result, lpc, trainer, predictVars,
                 exceptArtifact>>

\* save_model is interrupted or one of its writes raises: nothing catches
\* the exception and nothing is rolled back.
InterruptSave ==
  /\ spc \in {"start", "weights", "tokenizer", "config"}
  /\ spc' = "interrupted"
  /\ UNCHANGED <<files, has_metrics, loaded, load_result, lpc, trainer,
                 predictVars, exceptArtifact>>

\* load_model: open(config_file) and json.load; open raises
\* FileNotFoundError when the file is absent, and nothing catches it.
\* Then cls(config) builds the instance.
LoadConfig ==
  /\ lpc = "start"
  /\ IF files["config"] = 0
     THEN /\ load_result' = "FileNotFoundError"
          /\ lpc' = "raised"
          /\ UNCHANGED <<loaded, trainer>>
     ELSE /\ loaded' = [loaded EXCEPT !["config"] = files["config"]]
          /\ trainer' = "None"
          /\ lpc' = "config"
          /\ UNCHANGED load_result
  /\ UNCHANGED <<files, has_metrics, spc, predictVars, exceptArtifact>>

\* load_model: BertForSequenceClassification.from_pretrained(model_dir),
\* which raises OSError when the directory holds no weights.
LoadWeights ==
  /\ lpc = "config"
  /\ IF files["weights"] = 0
     THEN /\ load_result' = "OSError"
          /\ lpc' = "raised"
          /\ UNCHANGED loaded
     ELSE /\ loaded' = [loaded EXCEPT !["weights"] = files["weights"]]
          /\ lpc' = "weights"
          /\ UNCHANGED load_result
  /\ UNCHANGED <<files, has_metrics, spc, trainer, predictVars, exceptArtifact>>

\* load_model: BertTokenizer.from_pretrained(model_dir), then the instance
\* is returned; its trainer attribute is still None.
LoadTokenizer ==
  /\ lpc = "weights"
  /\ IF files["tokenizer"] = 0
     THEN /\ load_result' = "OSError"
          /\ lpc' = "raised"
          /\ UNCHANGED loaded
     ELSE /\ loaded' = [loaded EXCEPT !["tokenizer"] = files["tokenizer"]]
          /\ load_result' = "ok"
          /\ lpc' = "done"
  /\ UNCHANGED <<files, has_metrics, spc, trainer, predictVars, exceptArtifact>>

\* The results list predict builds from zip(texts, predicted_labels, ...).
predict_results(texts, labels) ==
  [i \in DOMAIN texts |->
     [text |-> texts[i], predicted_label |-> labels[i]]]

\* predict(texts) on the instance load_model returned: the texts are
\* tokenized and self.trainer.predict(dataset) is called; self.trainer is
\* None unless train ran on this instance, and then the call raises
\* AttributeError; predict has no except clause and no other branch.
Predict ==
  /\ lpc = "done"
  /\ predict_result = "none"
  /\ \E texts \in PredictTexts :
       /\ predict_texts' = texts
       /\ IF trainer = "None"
          THEN /\ predict_result' = "AttributeError"
               /\ predictions' = <<>>
          ELSE /\ predict_result' = "results"
               /\ \E labels \in [DOMAIN texts -> LabelIds] :
                    predictions' = predict_results(texts, labels)
  /\ UNCHANGED <<files, has_metrics, spc, loaded, load_result, lpc, trainer,
                 exceptArtifact>>

NextArtifact ==
  \/ SaveWeights
  \/ SaveTokenizer
  \/ SaveConfig
  \/ SaveMetrics
  \/ InterruptSave
  \/ LoadConfig
  \/ LoadWeights
  \/ LoadTokenizer
  \/ Predict

SpecArtifact == InitArtifact /\ [][NextArtifact]_vars

(***************************************************************************)
(* LawLLM service: LawLLMServiceWindows.initialize and generate_response   *)
(* (backend/app/services/lawllm_service_windows.py) on the shared          *)
(* instance lawllm_service_windows                                         *)
(***************************************************************************)
\* Number of entries of the mock_responses table.
NumMockKeys == 3

\* _generate_mock_response(prompt): the first table entry whose key occurs
\* in the prompt, else the default reply. A prompt is given by the set of
\* keys that occur in it.
generate_mock_response(prompt_keys) ==
  IF prompt_keys = {} THEN [kind |-> "mock", entry |-> 0]
  ELSE [kind |-> "mock",
        entry |-> CHOOSE k \in prompt_keys : \A j \in prompt_keys : k <= j]

\* A service whose failed initialize leaves the flag unset.
initialize_result_unset(load_ok, old_pipeline) ==
  IF load_ok
  THEN [is_initialized |-> TRUE, pipeline |-> "pipeline"]
  ELSE [is_initialized |-> FALSE, pipeline |-> old_pipeline]

\* The fields initialize leaves behind: on success the pipeline and the
\* flag are set; on an exception self.pipeline has not been assigned and
\* _initialize_mock_service sets the flag alone.
initialize_result(load_ok, old_pipeline) ==
  IF load_ok
  THEN [is_initialized |-> TRUE, pipeline |-> "pipeline"]
  ELSE [is_initialized |-> TRUE, pipeline |-> old_pipeline]

(***************************************************************************)
(* Inputs of the service: at most MaxCalls calls by the threads            *)
(***************************************************************************)
MaxCalls == 4

Threads == {1, 2}

\* Prompts with no key, with the first key, with the second and third key.
Prompts == {{}, {1}, {2, NumMockKeys}}

ServiceStart ==
  /\ is_initialized = FALSE
  /\ pipeline = "None"
  /\ thread_pc = [th \in Threads |-> "idle"]
  /\ thread_prompt = [th \in Threads |-> {}]
  /\ thread_response = [th \in Threads |-> [kind |-> "none", entry |-> 0]]
  /\ load_attempts = 0
  /\ load_failed = FALSE
  /\ calls_started = 0
  /\ IdleExceptService

\* Concurrent callers of the shared instance.
InitService ==
  /\ threads = Threads
  /\ ServiceStart

\* One caller: the calls come one after the other.
InitServiceSequential ==
  /\ threads = {1}
  /\ ServiceStart

\* generate_response(prompt): the test `if not self.is_initialized`.
CheckInitialized(th) ==
  /\ th \in threads
  /\ thread_pc[th] = "idle"
  /\ calls_started < MaxCalls
  /\ calls_started' = calls_started + 1
  /\ \E p \in Prompts : thread_prompt' = [thread_prompt EXCEPT ![th] = p]
  /\ thread_pc' = [thread_pc EXCEPT ![th] =
                     IF is_initialized THEN "generate" ELSE "to_initialize"]
  /\ UNCHANGED <<is_initialized, pipeline, threads, thread_response,
                 load_attempts, load_failed, exceptService>>

\* generate_response calls self.initialize(), which starts loading.
BeginInitialize(th) ==
  /\ th \in threads
  /\ thread_pc[th] = "to_initialize"
  /\ load_attempts' = load_attempts + 1
  /\ thread_pc' = [thread_pc EXCEPT ![th] = "initializing"]
  /\ UNCHANGED <<is_initialized, pipeline, threads, thread_prompt,
                 thread_response, load_failed, calls_started, exceptService>>

\* initialize ends: the load succeeded, or it raised and the except clause
\* called _initialize_mock_service.
FinishInitialize(th) ==
  /\ th \in threads
  /\ thread_pc[th] = "initializing"
  /\ \E load_ok \in BOOLEAN :
       LET r == initialize_result(load_ok, pipeline)
       IN  /\ is_initialized' = r.is_initialized
           /\ pipeline' = r.pipeline
           /\ load_failed' = (load_failed \/ ~load_ok)
  /\ thread_pc' = [thread_pc EXCEPT ![th] = "generate"]
  /\ UNCHANGED <<threads, thread_prompt, thread_response, load_attempts,
                 calls_started, exceptService>>

\* generate_response, the try block: without a pipeline the mock reply; with
\* one, the generated text, or the mock reply when the text is empty or the
\* pipeline raised.
GenerateResponse(th) ==
  /\ th \in threads
  /\ thread_pc[th] = "generate"
  /\ \E r \in IF pipeline = "None"
             THEN {generate_mock_response(thread_prompt[th])}
             ELSE {[kind |-> "model", entry |-> 0],
                   generate_mock_response(thread_prompt[th])} :
       thread_response' = [thread_response EXCEPT ![th] = r]
  /\ thread_pc' = [thread_pc EXCEPT ![th] = "idle"]
  /\ UNCHANGED <<is_initialized, pipeline, threads, thread_prompt,
                 load_attempts, load_failed, calls_started, exceptService>>

NextService ==
  \E th \in Threads :
    \/ CheckInitialized(th)
    \/ BeginInitialize(th)
    \/ FinishInitialize(th)
    \/ GenerateResponse(th)

SpecService == InitService /\ [][NextService]_vars

SpecServiceSequential == InitServiceSequential /\ [][NextService]_vars

(***************************************************************************)
(* Document processing: LegalKnowledgeProcessor.process_legal_document     *)
(* with _classify_content and _extract_dates                               *)
(***************************************************************************)
\* _classify_content: legal_domains, in dict order
legal_domains ==
  << [name |-> <<27665, 20107, 27861, 24459>>,  \* 民事法律
      keywords |-> << <<21512, 21516>>, <<20405, 26435>>, <<23130, 23035>>, <<32487, 25215>>, <<29289, 26435>>, <<20538, 26435>> >>],  \* 合同 侵权 婚姻 继承 物权 债权
     [name |-> <<21009, 20107, 27861, 24459>>,  \* 刑事法律
      keywords |-> << <<29359, 32618>>, <<21009, 32602>>, <<21009, 27861>>, <<21009, 20107>>, <<32618, 21517>> >>],  \* 犯罪 刑罚 刑法 刑事 罪名
     [name |-> <<34892, 25919, 27861, 24459>>,  \* 行政法律
      keywords |-> << <<34892, 25919>>, <<22788, 32602>>, <<35768, 21487>>, <<22797, 35758>>, <<35785, 35772>> >>],  \* 行政 处罚 许可 复议 诉讼
     [name |-> <<21830, 20107, 27861, 24459>>,  \* 商事法律
      keywords |-> << <<20844, 21496>>, <<35777, 21048>>, <<37329, 34701>>, <<20445, 38505>>, <<30772, 20135>> >>],  \* 公司 证券 金融 保险 破产
     [name |-> <<21171, 21160, 27861, 24459>>,  \* 劳动法律
      keywords |-> << <<21171, 21160>>, <<24037, 36164>>, <<31038, 20445>>, <<24037, 20260>>, <<35299, 38599>> >>],  \* 劳动 工资 社保 工伤 解雇
     [name |-> <<30693, 35782, 20135, 26435>>,  \* 知识产权
      keywords |-> << <<19987, 21033>>, <<21830, 26631>>, <<33879, 20316, 26435>>, <<21830, 19994, 31192, 23494>>, <<29256, 26435>> >>] >>  \* 专利 商标 著作权 商业秘密 版权

\* _classify_content: doc_types, in dict order
doc_types ==
  << [name |-> <<27861, 24459, 26465, 25991>>,  \* 法律条文
      keywords |-> << <<31532>>, <<26465>>, <<27454>>, <<39033>>, <<27861>>, <<26465, 20363>> >>],  \* 第 条 款 项 法 条例
     [name |-> <<26696, 20363, 21028, 20915>>,  \* 案例判决
      keywords |-> << <<21028, 20915>>, <<35009, 23450>>, <<26696, 20363>>, <<27861, 38498>>, <<23457, 29702>> >>],  \* 判决 裁定 案例 法院 审理
     [name |-> <<23454, 21153, 25351, 21335>>,  \* 实务指南
      keywords |-> << <<27969, 31243>>, <<27493, 39588>>, <<25805, 20316>>, <<25351, 21335>>, <<25163, 20876>> >>],  \* 流程 步骤 操作 指南 手册
     [name |-> <<25919, 31574, 25991, 20214>>,  \* 政策文件
      keywords |-> << <<25919, 31574>>, <<35268, 23450>>, <<36890, 30693>>, <<20844, 21578>>, <<24847, 35265>> >>] >>  \* 政策 规定 通知 公告 意见

\* The names of the table entries with a keyword in the text, in order.
TagsOf(s, table) ==
  LET hits == SelectSeq(table,
                LAMBDA e : \E k \in DOMAIN e.keywords : Contains(s, e.keywords[k]))
  IN  [i \in DOMAIN hits |-> hits[i].name]

\* _classify_content(content)
classify_content(s) == TagsOf(s, legal_domains) \o TagsOf(s, doc_types)

\* \d; of the decimal digits only 0-9 survive _clean_text.
DigitChars == 48..57

\* date_patterns, in order: \d{4}<a>\d{1,2}<b>\d{1,2}<last>
date_patterns ==
  << [sep |-> <<24180, 26376>>, last |-> <<26085>>],   \* \d{4}年\d{1,2}月\d{1,2}日
     [sep |-> <<45, 45>>,       last |-> <<>>],        \* \d{4}-\d{1,2}-\d{1,2}
     [sep |-> <<47, 47>>,       last |-> <<>>] >>      \* \d{4}/\d{1,2}/\d{1,2}

\* Where a match of a date pattern starting at 0-based offset i ends
\* (exclusive), or -1. The separators are not digits, so the month has one
\* length at most; the greedy day takes two digits where it can.
DateMatchEnd(s, i, pattern) ==
  LET IsDigitAt(k)   == k >= 1 /\ k <= Len(s) /\ s[k] \in DigitChars
      IsCharAt(k, c) == k >= 1 /\ k <= Len(s) /\ s[k] = c
      ends == {e \in (i + 1)..Len(s) :
                 \E m \in 1..2, d \in 1..2 :
                   /\ \A k \in (i + 1)..(i + 4) : IsDigitAt(k)
                   /\ IsCharAt(i + 5, pattern.sep[1])
                   /\ \A k \in (i + 6)..(i + 5 + m) : IsDigitAt(k)
                   /\ IsCharAt(i + 6 + m, pattern.sep[2])
                   /\ \A k \in (i + 7 + m)..(i + 6 + m + d) : IsDigitAt(k)
                   /\ \A k \in 1..Len(pattern.last) :
                        IsCharAt(i + 6 + m + d + k, pattern.last[k])
                   /\ e = i + 6 + m + d + Len(pattern.last)}
  IN  IF ends = {} THEN -1
      ELSE CHOOSE e \in ends : \A f \in ends : f <= e

\* re.findall(pattern, s): the matched strings, leftmost first, the scan
\* resuming at the end of each match.
RECURSIVE FindAllDates(_, _, _)
FindAllDates(s, pattern, pos) ==
  LET starts == {i \in pos..(Len(s) - 1) : DateMatchEnd(s, i, pattern) # -1}
  IN  IF starts = {} THEN <<>>
      ELSE LET i == CHOOSE a \in starts : \A b \in starts : a <= b
               e == DateMatchEnd(s, i, pattern)
           IN  <<Slice(s, i, e)>> \o FindAllDates(s, pattern, e)

\* _extract_dates(content): dates.extend(matches) for each pattern.
extract_dates(s) ==
  FindAllDates(s, date_patterns[1], 0)
    \o FindAllDates(s, date_patterns[2], 0)
    \o FindAllDates(s, date_patterns[3], 0)

\* The dictionary jieba cuts the documents with.
DocumentDictionary == DictionaryWords

\* process_legal_document(content): for a str the five steps and the dict
\* of their results; for any other value re.sub in _clean_text raises
\* TypeError, the except clause logs it and returns {}. Of structured_info
\* only the dates are modelled.
process_legal_document(doc) ==
  IF ~doc.is_text THEN <<>>
  ELSE LET cleaned == clean_text(doc.text)
       IN  [cleaned_content |-> cleaned,
            law_articles    |-> extract_law_articles(cleaned),
            keywords        |-> extract_keywords(lcut(cleaned, DocumentDictionary)),
            tags            |-> classify_content(cleaned),
            structured_info |-> [dates |-> extract_dates(cleaned)],
            processed_at    |-> "utcnow"]

(***************************************************************************)
(* Inputs of process_legal_document: a value that is not a str, or a       *)
(* concatenation of at most MaxParts fragments                             *)
(***************************************************************************)
MaxParts == 3

DocumentFragments ==
  << <<50, 48, 50, 52, 24180, 49, 26376, 53, 26085>>,   \* 2024年1月5日
     <<50, 48, 50, 52, 45, 49, 45, 53>>,                \* 2024-1-5
     <<50, 48, 50, 52, 47, 48, 49, 47, 48, 53>>,        \* 2024/01/05
     <<21512, 21516>>,                                  \* 合同
     <<32>>,                                            \* space
     <<31532, 19968, 26465>> >>                         \* 第一条

RECURSIVE JoinParts(_)
JoinParts(parts) ==
  IF parts = <<>> THEN <<>>
  ELSE DocumentFragments[Head(parts)] \o JoinParts(Tail(parts))

DocumentTexts ==
  {JoinParts(parts) :
     parts \in UNION {[1..n -> DOMAIN DocumentFragments] : n \in 0..MaxParts}}

\* None, bytes, a number: anything re.sub rejects.
NonText == [is_text |-> FALSE, text |-> <<>>]

InitDocument ==
  /\ document \in {[is_text |-> TRUE, text |-> t] : t \in DocumentTexts}
                    \cup {NonText}
  /\ doc_result = <<>>
  /\ doc_pc = "start"
  /\ IdleExceptDocument

\* knowledge_processor.process_legal_document(content)
ProcessLegalDocument ==
  /\ doc_pc = "start"
  /\ doc_result' = process_legal_document(document)
  /\ doc_pc' = "returned"
  /\ UNCHANGED <<document, exceptDocument>>

NextDocument == ProcessLegalDocument

SpecDocument == InitDocument /\ [][NextDocument]_vars

(***************************************************************************)
(* Training run: main() of disc_law_bert.py and of                         *)
(* scripts/train_disc_law_bert.py: initialize the model, load the data,    *)
(* prepare the dataset, train, save, all inside one try block whose        *)
(* handler logs the exception and raises it again                          *)
(***************************************************************************)
\* GBALegalDataProcessor._create_sample_data: the labels of the ten sample
\* texts.
sample_labels == <<0, 0, 6, 4, 1, 3, 0, 2, 0, 7>>

\* GBALegalDataProcessor.load_data: the labels of the items read from
\* gba_legal_data.json, or the sample data when there are none.
load_data(file_labels) ==
  IF file_labels = <<>> THEN sample_labels ELSE file_labels

\* Where main() is after model.prepare_dataset(texts, labels): an exception
\* leaves the try block through the handler, which raises it again.
main_after_prepare_dataset(raised) ==
  IF raised THEN "raised" ELSE "prepared"

MainEntries == {"disc_law_bert", "train_disc_law_bert"}

InitRun ==
  /\ main_entry \in MainEntries
  /\ main_data \in Corpora
  /\ main_labels = <<>>
  /\ main_pc = "start"
  /\ main_steps = <<>>
  /\ main_files = {}
  /\ prepare_failed = FALSE
  /\ IdleExceptRun

\* model = DISCLawBERT(config): the pretrained tokenizer and model are
\* loaded; nothing is written into output_dir.
MainInitModel ==
  /\ main_pc = "start"
  /\ main_steps' = Append(main_steps, "init")
  /\ main_pc' = "model"
  /\ UNCHANGED <<main_entry, main_data, main_labels, main_files,
                 prepare_failed, exceptRun>>

\* texts, labels = data_processor.load_data(); the script returns when
\* there are no texts.
MainLoadData ==
  /\ main_pc = "model"
  /\ main_labels' = load_data(main_data)
  /\ main_steps' = Append(main_steps, "load_data")
  /\ main_pc' = IF main_entry = "train_disc_law_bert" /\ main_labels' = <<>>
                THEN "returned" ELSE "loaded"
  /\ UNCHANGED <<main_entry, main_data, main_files, prepare_failed,
                 exceptRun>>

\* dataset_dict = model.prepare_dataset(texts, labels): the stratified
\* split raises ValueError for labels it cannot stratify.
MainPrepareDataset ==
  /\ main_pc = "loaded"
  /\ prepare_failed' = StratifiedRaises(main_labels)
  /\ main_steps' = Append(main_steps, "prepare_dataset")
  /\ main_pc' = main_after_prepare_dataset(StratifiedRaises(main_labels))
  /\ UNCHANGED <<main_entry, main_data, main_labels, main_files, exceptRun>>

\* metrics = model.train(dataset_dict): trainer.train(), then
\* trainer.save_model() and tokenizer.save_pretrained(output_dir).
MainTrain ==
  /\ main_pc = "prepared"
  /\ main_steps' = Append(main_steps, "train")
  /\ main_files' = main_files \cup {"weights", "tokenizer"}
  /\ main_pc' = "trained"
  /\ UNCHANGED <<main_entry, main_data, main_labels, prepare_failed,
                 exceptRun>>

\* model.save_model(output_dir): weights, tokenizer, configuration and
\* metrics.
MainSaveModel ==
  /\ main_pc = "trained"
  /\ main_steps' = Append(main_steps, "save_model")
  /\ main_files' = main_files \cup ArtifactFiles
  /\ main_pc' = "saved"
  /\ UNCHANGED <<main_entry, main_data, main_labels, prepare_failed,
                 exceptRun>>

\* The metrics are logged; the script also writes README.md into
\* output_dir.
MainReport ==
  /\ main_pc = "saved"
  /\ main_steps' = Append(main_steps, "report")
  /\ main_files' = IF main_entry = "train_disc_law_bert"
                   THEN main_files \cup {"README.md"} ELSE main_files
  /\ main_pc' = "completed"
  /\ UNCHANGED <<main_entry, main_data, main_labels, prepare_failed,
                 exceptRun>>

NextRun ==
  \/ MainInitModel
  \/ MainLoadData
  \/ MainPrepareDataset
  \/ MainTrain
  \/ MainSaveModel
  \/ MainReport

SpecRun == InitRun /\ [][NextRun]_vars

(***************************************************************************)
(* Collector: a DISCLawDataCollector instance over several calls of        *)
(* _classify_legal_text, with items appended to collected_data in between  *)
(***************************************************************************)
\* Variant of classify_legal_text that answers from the last collected item.
classify_legal_text_cached(instance, t) ==
  IF instance.collected_data # <<>>
  THEN LET last == instance.collected_data[Len(instance.collected_data)]
       IN  [category |-> last.category, confidence |-> last.confidence]
  ELSE [category |-> MaxKey(ComputeScores(t)),
        confidence |-> Confidence(ScoreOfKey(ComputeScores(t), MaxKey(ComputeScores(t))),
                                  SumScores(ComputeScores(t)))]

\* _classify_legal_text(self, text): the scores come from the table in
\* self.legal_categories and the text; no other field is read.
classify_legal_text(instance, t) ==
  LET text_lower == Lower(t)
      table  == instance.legal_categories
      scores == [i \in 1..Len(table) |->
                   [category |-> table[i].name,
                    score    |-> CategoryScore(table[i], text_lower)]]
      best   == MaxKey(scores)
  IN  [category |-> best,
       confidence |-> Confidence(ScoreOfKey(scores, best), SumScores(scores))]

\* Calls of _classify_legal_text and appends to collected_data per run.
MaxCollectorOps == 3

\* The texts classified: "", "合同", "犯罪", "合同犯罪", "A".
CollectorTexts ==
  {<<>>, <<21512, 21516>>, <<29359, 32618>>,
   <<21512, 21516, 29359, 32618>>, <<65>>}

\* __init__: collected_data is empty, legal_categories is the table.
InitCollector ==
  /\ collector = [legal_categories |-> legal_categories,
                  collected_data |-> <<>>]
  /\ classify_log = <<>>
  /\ IdleExceptCollector

\* One call of _classify_legal_text(text): only locals are assigned.
CallClassifyLegalText ==
  /\ Len(classify_log) < MaxCollectorOps
  /\ \E t \in CollectorTexts :
       classify_log' = Append(classify_log,
                              [text |-> t,
                               result |-> classify_legal_text(collector, t),
                               before |-> collector,
                               after |-> collector])
  /\ UNCHANGED <<collector, exceptCollector>>

\* The loop body of _scrape_court_website / _scrape_news_website for one
\* item: the title is classified and the item appended to collected_data.
ScrapeItem ==
  /\ Len(classify_log) < MaxCollectorOps
  /\ \E title \in CollectorTexts \ {<<>>} :
       LET result == classify_legal_text(collector, title)
       IN  /\ classify_log' = Append(classify_log,
                                     [text |-> title, result |-> result,
                                      before |-> collector,
                                      after |-> collector])
           /\ collector' =
                [collector EXCEPT !.collected_data =
                   Append(@, [title |-> title,
                              category |-> result.category,
                              confidence |-> result.confidence])]
  /\ UNCHANGED exceptCollector

NextCollector == CallClassifyLegalText \/ ScrapeItem

SpecCollector == InitCollector /\ [][NextCollector]_vars

(***************************************************************************)
(* Properties of the categorizer                                           *)
(***************************************************************************)
AllScoresZero == \A i \in DOMAIN category_scores : category_scores[i].score = 0

\* C1: whenever all ten category scores are 0 (the empty string included),
\* _classify_legal_text returns confidence 0 and the catch-all category
\* "other" (id 9).
C1_ZeroScoresGiveOther ==
  (cpc = "done" /\ AllScoresZero) =>
    (confidence.num = 0 /\ best_category = OtherCategory)

\* C2: the returned category has the maximum raw score, and among several
\* categories with that maximum it is the one with the lowest index in the
\* fixed enumeration.
C2_ArgmaxLowestIndex ==
  cpc = "done" =>
    \E b \in DOMAIN category_scores :
      /\ category_scores[b].category = best_category
      /\ \A i \in DOMAIN category_scores :
           /\ category_scores[i].score <= category_scores[b].score
           /\ i < b => category_scores[i].score < category_scores[b].score

\* C2 witness: a call that returned a category other than the first one
\* while a later category holds the same positive maximum (a real tie).
C2_Witness ==
  /\ cpc = "done"
  /\ best_category = "commercial"
  /\ \E i, b \in DOMAIN category_scores :
       /\ category_scores[b].category = best_category
       /\ i > b
       /\ category_scores[i].score = category_scores[b].score
       /\ category_scores[b].score > 0

\* C3: for every category c the raw score is (number of c's keywords that
\* occur as substrings of the text) + 2 * (number of c's subcategory names
\* that occur as substrings of the text), each counted at most once.
C3_RawScoreFormula ==
  cpc = "done" =>
    /\ Len(category_scores) = NumCategories
    /\ \A i \in 1..NumCategories :
         /\ category_scores[i].category = legal_categories[i].name
         /\ category_scores[i].score =
              Cardinality({k \in Range(legal_categories[i].keywords) : Contains(text, k)})
              + 2 * Cardinality({k \in Range(legal_categories[i].subcategories) :
                                   Contains(text, k)})

\* C3 witness: a classified text in which a keyword of some category occurs
\* twice and a subcategory name of the same category occurs as well.
C3_Witness ==
  /\ cpc = "done"
  /\ \E i \in 1..NumCategories :
       /\ \E k \in Range(legal_categories[i].keywords) : Occurrences(text, k) >= 2
       /\ \E k \in Range(legal_categories[i].subcategories) : Contains(text, k)
       /\ category_scores[i].score >= 3

ReturnedScore ==
  LET b == CHOOSE i \in DOMAIN category_scores : category_scores[i].category = best_category
  IN  category_scores[b].score

\* C4: the confidence lies in [0,1], and whenever the sum of the raw scores
\* is non-zero it equals the winning category's raw score divided by the sum
\* of all ten raw scores.
C4_ConfidenceIsMaxOverTotal ==
  cpc = "done" =>
    /\ confidence.den > 0
    /\ 0 <= confidence.num
    /\ confidence.num <= confidence.den
    /\ SumScores(category_scores) # 0 =>
         confidence.num * SumScores(category_scores) = ReturnedScore * confidence.den

\* C4 witness: a call with a non-zero total whose winner does not hold the
\* whole total (a confidence strictly between 0 and 1).
C4_Witness ==
  /\ cpc = "done"
  /\ SumScores(category_scores) > 0
  /\ 0 < confidence.num
  /\ confidence.num < confidence.den

(***************************************************************************)
(* Properties of the normalizer                                            *)
(***************************************************************************)

\* The input with every markup tag <...> deleted (re.sub(r'<[^>]*>', '', s)).
RECURSIVE StripTags(_)
StripTags(s) ==
  LET opens == {i \in 1..Len(s) : s[i] = 60}
  IN  IF opens = {} THEN s
      ELSE LET i == CHOOSE a \in opens : \A b \in opens : a <= b
               closes == {j \in (i + 1)..Len(s) : s[j] = 62}
           IN  IF closes = {} THEN s
               ELSE LET j == CHOOSE a \in closes : \A b \in closes : a <= b
                    IN  SubSeq(s, 1, i - 1) \o StripTags(SubSeq(s, j + 1, Len(s)))

HasTag(s) == \E i, j \in 1..Len(s) : i < j /\ s[i] = 60 /\ s[j] = 62

\* C6: the normalizer removes markup tags: the output contains no tag and
\* equals the normalization of the input with every <...> tag (delimiters,
\* tag name and attributes) deleted beforehand.
C6_TagsRemoved ==
  ppc = "cleaned" =>
    /\ ~HasTag(cleaned_content)
    /\ cleaned_content = clean_text(StripTags(content))

\* C7: the normalizer's output contains no run of more than one consecutive
\* whitespace character.
C7_NoWhitespaceRun ==
  ppc = "cleaned" =>
    \A i \in 1..(Len(cleaned_content) - 1) :
      ~(IsSpace(cleaned_content[i]) /\ IsSpace(cleaned_content[i + 1]))

\* C8: the normalizer's output contains no run of two or more identical
\* consecutive punctuation characters, for every character of the kept
\* punctuation set.
C8_NoPunctuationRun ==
  ppc = "cleaned" =>
    \A i \in 1..(Len(cleaned_content) - 1) :
      ~(cleaned_content[i] \in KeptPunctuation
        /\ cleaned_content[i] = cleaned_content[i + 1])

(***************************************************************************)
(* Properties of the pattern extractor                                     *)
(***************************************************************************)

HasEntry(article_text, start, end) ==
  \E n \in DOMAIN law_articles :
    /\ law_articles[n].article_text = article_text
    /\ law_articles[n].position = <<start, end>>
    /\ start < end
    /\ end <= Len(cleaned_content)

\* C5: for the input 《民法典》第四百六十九条 the extractor returns at
\* least two entries, one spanning the bracketed title 《民法典》 and one
\* spanning the article reference 第四百六十九条, each with start < end and
\* inside the input's length.
C5_CivilCodeTitleAndArticle ==
  (ppc = "extracted" /\ content = CivilCodeArticle) =>
    /\ Len(law_articles) >= 2
    /\ HasEntry(SubSeq(CivilCodeArticle, 1, 5), 0, 5)
    /\ HasEntry(SubSeq(CivilCodeArticle, 6, 12), 5, 12)

\* The 1-based indices of the lookahead window after a match ending at e.
Window(e) == (e + 1)..Min(e + ContentWindow, Len(cleaned_content))

Terminators(e) == {k \in Window(e) : cleaned_content[k] = 12290}

C10_SameTypeDisjoint ==
  ppc = "extracted" =>
    \A i, j \in DOMAIN law_articles :
      (i # j /\ law_articles[i].type = law_articles[j].type) =>
        \/ law_articles[i].position[2] <= law_articles[j].position[1]
        \/ law_articles[j].position[2] <= law_articles[i].position[1]

(***************************************************************************)
(* Properties of the similarity scorer                                     *)
(***************************************************************************)

\* C11: for all pairs of texts (A, B), calculate_similarity(A, B) equals
\* calculate_similarity(B, A).
C11_SimilaritySymmetric ==
  sim_done = {"forward", "swapped"} =>
    similarity.num * similarity_swapped.den = similarity_swapped.num * similarity.den

\* C11 witness: both calls returned for two different texts that share some
\* but not all words.
C11_Witness ==
  /\ sim_done = {"forward", "swapped"}
  /\ content1 # content2
  /\ 0 < similarity.num
  /\ similarity.num < similarity.den

\* C12: for every non-empty text A, calculate_similarity(A, A) equals 1.0.
C12_SelfSimilarityIsOne ==
  ("forward" \in sim_done /\ content1 = content2 /\ content1 # <<>>) =>
    (similarity.num = similarity.den /\ similarity.den > 0)

\* C12 witness: the scorer returned for a text of several words compared
\* with itself.
C12_Witness ==
  /\ "forward" \in sim_done
  /\ content1 = content2
  /\ similarity.den >= 2

\* The word set of a text under the dictionary in use.
WordSet(s) == Range(lcut(s, jieba_dict))

\* C13: calculate_similarity returns |A n B| / |A u B| over the two word
\* sets, a value in [0,1], and 0.0 when the union is empty (both inputs
\* empty).
C13_JaccardInUnitInterval ==
  "forward" \in sim_done =>
    LET A == WordSet(content1)
        B == WordSet(content2)
        both   == {w \in A : w \in B}
        either == A \cup B
    IN  /\ similarity.den > 0
        /\ 0 <= similarity.num
        /\ similarity.num <= similarity.den
        /\ either # {} =>
             similarity.num * Cardinality(either) = Cardinality(both) * similarity.den
        /\ either = {} => similarity.num = 0
        /\ (content1 = <<>> /\ content2 = <<>>) => either = {}

\* C13 witness: the scorer returned 0.0 for two empty texts.
C13_Witness ==
  /\ "forward" \in sim_done
  /\ content1 = <<>>
  /\ content2 = <<>>
  /\ similarity.num = 0

(***************************************************************************)
(* Properties of the keyword extractor                                     *)
(***************************************************************************)
\* Number of occurrences of token w in the token list.
CountOf(w) == Cardinality({j \in DOMAIN lcut_words : lcut_words[j] = w})

\* Position of the first occurrence of token w in the token list.
FirstIndex(w) ==
  CHOOSE j \in DOMAIN lcut_words :
    lcut_words[j] = w /\ \A k \in 1..(j - 1) : lcut_words[k] # w

\* The words the extractor returned.
ReturnedWords == {keywords[i].word : i \in DOMAIN keywords}

\* The tokens that are neither stop words nor single characters.
Candidates == {w \in Range(lcut_words) : Len(w) > 1 /\ w \notin stop_words}

\* C14: for every token sequence the extractor returns at most 20 entries,
\* none a stop word or a single-character token, each with its exact
\* occurrence count, in non-increasing frequency order with equal-frequency
\* words in order of first occurrence; a word left out has a frequency no
\* higher than that of every returned word.
C14_TopKeywords ==
  kpc = "done" =>
    /\ Len(keywords) <= 20
    /\ \A i \in DOMAIN keywords :
         /\ keywords[i].word \in Candidates
         /\ keywords[i].frequency = CountOf(keywords[i].word)
    /\ \A i, j \in DOMAIN keywords :
         i < j =>
           /\ keywords[i].word # keywords[j].word
           /\ keywords[i].frequency >= keywords[j].frequency
           /\ keywords[i].frequency = keywords[j].frequency =>
                FirstIndex(keywords[i].word) < FirstIndex(keywords[j].word)
    /\ \A w \in Candidates \ ReturnedWords :
         \A i \in DOMAIN keywords : CountOf(w) <= keywords[i].frequency

\* C14 witness: the extractor returned 20 entries and left a candidate out,
\* its two first entries tie at a count of two or more, and the token list
\* held a stop word.
C14_Witness ==
  /\ kpc = "done"
  /\ Len(keywords) = 20
  /\ Candidates \ ReturnedWords # {}
  /\ keywords[1].frequency >= 2
  /\ keywords[1].frequency = keywords[2].frequency
  /\ \E j \in DOMAIN lcut_words : lcut_words[j] \in stop_words

(***************************************************************************)
(* Properties of the dataset split                                         *)
(***************************************************************************)
\* The labels of the examples at the positions idx.
LabelsAt(idx) == {corpus_labels[i] : i \in idx}

\* C15: in every split that prepare_dataset or prepare_data completes
\* successfully, every label with at least 2 examples in the corpus appears
\* in both the train and the validation partition.
C15_LabelsInBothPartitions ==
  split_result = "ok" =>
    \A c \in Range(corpus_labels) :
      Cardinality(OfClass(corpus_labels, DOMAIN corpus_labels, c)) >= 2 =>
        (c \in LabelsAt(train_idx) /\ c \in LabelsAt(val_idx))

\* C16: dataset preparation fails with a data error, returning no split,
\* whenever the corpus has fewer than two distinct labels, and whenever the
\* split would leave some label absent from train or validation.
C16_FailsOnDegenerateCorpus ==
  split_result \in {"ok", "ValueError"} =>
    /\ Cardinality(Range(corpus_labels)) < 2 => split_result = "ValueError"
    /\ split_result = "ok" =>
         \A c \in Range(corpus_labels) :
           c \in LabelsAt(train_idx) /\ c \in LabelsAt(val_idx)
    /\ split_result = "ValueError" => (train_idx = {} /\ val_idx = {})

(***************************************************************************)
(* Properties of the training run                                          *)
(***************************************************************************)
\* Epoch j did not improve on the best validation F1 of the epochs before.
NoImprovement(j) == \E i \in 1..(j - 1) : f1_log[i] >= f1_log[j]

\* Epoch k completes a run of `patience` epochs without improvement.
PatienceExhaustedAt(k) ==
  /\ k - EarlyStoppingPatience >= 1
  /\ \A j \in (k - EarlyStoppingPatience + 1)..k : NoImprovement(j)

\* C17: in every training run, once validation F1 has failed to improve for
\* patience (3) consecutive epochs no further epoch is trained, and the
\* model that is persisted is the checkpoint of the epoch with the best
\* validation F1.
C17_EarlyStopKeepsBest ==
  /\ \A k \in 1..Len(f1_log) : PatienceExhaustedAt(k) => Len(f1_log) = k
  /\ saved_epoch # 0 =>
       /\ saved_epoch \in 1..Len(f1_log)
       /\ \A k \in 1..Len(f1_log) : f1_log[k] <= f1_log[saved_epoch]

\* The order of states of a training run.
RunOrder == <<"Initialized", "Tokenized", "Training", "Evaluated", "Saved">>

\* C18: every training run passes through Initialized, Tokenized, Training,
\* Evaluated, Saved in this order, none skipped: the artifact is persisted
\* only after the final metrics were computed on the validation partition.
C18_PhasesInOrder ==
  tpc # "idle" =>
    /\ Len(phases) <= Len(RunOrder)
    /\ \A i \in 1..Len(phases) : phases[i] = RunOrder[i]

(***************************************************************************)
(* Properties of the model artifact                                        *)
(***************************************************************************)
\* C19: saving is atomic towards readers: at every point of save_model,
\* also when it is interrupted part-way, what load_model reads from the
\* output directory is no artifact, the complete previous artifact or the
\* complete new one, never a mixture of parts of both.
C19_SaveIsAtomic ==
  lpc = "done" =>
    \A p, q \in LoadedParts : loaded[p] = loaded[q]

\* load_model found no artifact, or one whose parts do not belong together.
ArtifactUnusable ==
  \/ lpc = "raised"
  \/ lpc = "done" /\ \E p, q \in LoadedParts : loaded[p] # loaded[q]

\* C20: when no artifact is present, or the artifact fails its integrity
\* checks, the predictor does not raise; it falls back to the rule-based
\* categorizer and tags every result as degraded.
C20_FallbackWithoutArtifact ==
  ArtifactUnusable =>
    /\ load_result \notin {"FileNotFoundError", "OSError"}
    /\ predict_result \in {"none", "degraded results"}

\* C21: after an artifact has been loaded with load_model, with no training
\* in the same process, every call predict(texts) returns exactly one
\* prediction per input text, in input order, and the loaded artifact is
\* left as it was.
C21_PredictAfterLoad ==
  (lpc = "done" /\ predict_result # "none") =>
    /\ predict_result = "results"
    /\ Len(predictions) = Len(predict_texts)
    /\ \A i \in DOMAIN predictions : predictions[i].text = predict_texts[i]
    /\ load_result = "ok"

(***************************************************************************)
(* Properties of the LawLLM service                                        *)
(***************************************************************************)
\* C22: under every interleaving of concurrent first-time callers of
\* generate_response on the shared instance, initialize is executed at most
\* once.
C22_InitializeAtMostOnce == load_attempts <= 1

\* C30: if model loading fails inside initialize, the service is left with
\* is_initialized = True and no pipeline, and from then on every
\* generate_response returns a mock response and the load is not attempted
\* again.
C30_MockAfterFailedLoad ==
  load_failed =>
    /\ is_initialized
    /\ pipeline = "None"
    /\ load_attempts = 1
    /\ \A th \in threads : thread_response[th].kind \in {"none", "mock"}

\* C30 witness: after a failed load, a later call that found the flag set
\* has returned a mock reply from the table.
C30_Witness ==
  /\ load_failed
  /\ calls_started >= 2
  /\ thread_pc[1] = "idle"
  /\ thread_response[1] = [kind |-> "mock", entry |-> 2]

(***************************************************************************)
(* Properties of process_legal_document                                    *)
(***************************************************************************)
\* The fields of a structurally valid result.
RequiredFields ==
  {"cleaned_content", "law_articles", "keywords", "tags", "structured_info"}

\* C23: for every input, text or not, process_legal_document does not
\* raise and returns a result that contains all of cleaned_content,
\* law_articles, keywords, tags and structured_info.
C23_ResultAlwaysStructured ==
  doc_pc = "returned" => RequiredFields \subseteq DOMAIN doc_result

\* No pattern of law_patterns matches anywhere in s.
NoPatternMatches(s) ==
  \A p \in DOMAIN law_patterns :
    \A i \in 0..(Len(s) - 1) : MatchEnd(s, i, law_patterns[p]) = -1

\* C26: for the empty string and for every text in which no pattern
\* matches, the pattern extractor returns an empty list, and for the empty
\* string the keyword extractor returns an empty list.
C26_EmptyResultsWithoutMatches ==
  (doc_pc = "returned" /\ document.is_text) =>
    /\ NoPatternMatches(doc_result.cleaned_content) =>
         doc_result.law_articles = <<>>
    /\ doc_result.cleaned_content = <<>> =>
         (doc_result.law_articles = <<>> /\ doc_result.keywords = <<>>)

\* C26 witness: the extractors ran on the empty string and both returned
\* an empty list.
C26_Witness ==
  /\ doc_pc = "returned"
  /\ document.is_text
  /\ document.text = <<>>
  /\ doc_result.cleaned_content = <<>>
  /\ doc_result.law_articles = <<>>
  /\ doc_result.keywords = <<>>

\* C27: every date the three date patterns match in the raw document is
\* reported in structured_info.dates of the result.
C27_DatesSurviveNormalization ==
  (doc_pc = "returned" /\ document.is_text) =>
    \A d \in Range(extract_dates(document.text)) :
      d \in Range(doc_result.structured_info.dates)

(***************************************************************************)
(* Properties of the training run                                          *)
(***************************************************************************)
\* The corpora the training run is to reject: labels the stratified split
\* cannot split, or fewer than two classes.
DataError(labels) ==
  StratifiedRaises(labels) \/ Cardinality(Range(labels)) < 2

\* A run whose prepare_dataset raised has ended with the exception raised
\* to the caller, without train or save_model and without any file written.
RaisedPrepareAborts ==
  prepare_failed =>
    /\ main_pc = "raised"
    /\ main_steps[Len(main_steps)] = "prepare_dataset"
    /\ main_files = {}

\* C24: once dataset preparation has run on data that cannot be stratified
\* or has fewer than two classes, the run has ended with the exception
\* raised to the caller, neither train nor save_model has been executed,
\* and the run has written no file into output_dir.
C24_AbortsWithoutArtifact ==
  (DataError(main_labels) /\ "prepare_dataset" \in Range(main_steps)) =>
    /\ main_pc = "raised"
    /\ "train" \notin Range(main_steps)
    /\ "save_model" \notin Range(main_steps)
    /\ main_files = {}

(***************************************************************************)
(* Properties of the collector                                             *)
(***************************************************************************)
\* C25: _classify_legal_text retains no state: every call leaves the
\* category table and the other fields of the collector as they were, and
\* any two calls on the same text returned the same (category, confidence)
\* pair, whatever was appended to collected_data between them.
C25_NoStateBetweenCalls ==
  /\ collector.legal_categories = legal_categories
  /\ \A i \in DOMAIN classify_log :
       classify_log[i].after = classify_log[i].before
  /\ \A i, j \in DOMAIN classify_log :
       classify_log[i].text = classify_log[j].text =>
         classify_log[i].result = classify_log[j].result

\* The same text, with a keyword hit, was classified before and after an
\* item with another title was appended to collected_data.
C25_Witness ==
  /\ Len(classify_log) = 3
  /\ classify_log[1].text = classify_log[3].text
  /\ classify_log[1].text # classify_log[2].text
  /\ classify_log[1].result.confidence.num > 0
  /\ classify_log[1].before.collected_data = <<>>
  /\ classify_log[3].before.collected_data # <<>>

(***************************************************************************)
(* Properties of the subtypes                                              *)
(***************************************************************************)
\* A match of the pattern 《[^》]+条例》.
IsRegulationTitle(t) ==
  /\ Len(t) >= 5
  /\ t[1] = 12298
  /\ SubSeq(t, Len(t) - 2, Len(t)) = <<26465, 20363, 12299>>

\* C28: the subtype follows the precedence 条, 款, 项, 法 over the
\* characters of the matched text: a match of 《...条例》 is an 'article',
\* no entry is a 'regulation', and a bracketed title is a 'law' only if it
\* contains none of 条, 款, 项.
C28_SubtypePrecedence ==
  ppc = "extracted" =>
    \A i \in DOMAIN law_articles :
      LET t       == law_articles[i].article_text
          subtype == law_articles[i].type
          has(c)  == \E k \in DOMAIN t : t[k] = c
      IN  /\ subtype # "regulation"
          /\ has(26465) => subtype = "article"
          /\ (~has(26465) /\ has(27454)) => subtype = "paragraph"
          /\ (~has(26465) /\ ~has(27454) /\ has(39033)) => subtype = "item"
          /\ (~has(26465) /\ ~has(27454) /\ ~has(39033) /\ has(27861))
               => subtype = "law"
          /\ IsRegulationTitle(t) => subtype = "article"
          /\ (t[1] = 12298 /\ subtype = "law")
               => (~has(26465) /\ ~has(27454) /\ ~has(39033))

\* A title 《...条例》 was extracted and tagged 'article'.
C28_Witness ==
  /\ ppc = "extracted"
  /\ \E i \in DOMAIN law_articles :
       /\ IsRegulationTitle(law_articles[i].article_text)
       /\ law_articles[i].type = "article"

(***************************************************************************)
(* Idempotence of the normalizer                                           *)
(***************************************************************************)
\* C29: cleaning the cleaned text again gives the cleaned text:
\* _clean_text(_clean_text(x)) = _clean_text(x).
C29_CleanTextIdempotent ==
  ppc = "cleaned" => clean_text(cleaned_content) = cleaned_content

=============================================================================
